---- MODULE Spec2Model ----
(***************************************************************************)
(* Sonalyze agent: the segment loader (src/src/data_loader.py), the        *)
(* aggregator (src/src/aggregator.py), the classification rules            *)
(* (src/src/config.py) and the interpretation client                       *)
(* (src/src/llm_client.py), as state machines.                             *)
(*                                                                         *)
(* Units: sound levels are integers in tenths of a dB (500 = 50.0 dB),     *)
(* probabilities are integers in thousandths.                              *)
(***************************************************************************)
EXTENDS Integers, Sequences, FiniteSets, TLC

VARIABLES
    pc,                   \* position of the request in the pipeline
    raw_data,             \* DataLoader.raw_data: the parsed JSON list
    validation_errors,    \* DataLoader.validation_errors
    validation_warnings,  \* DataLoader.validation_warnings
    load_result,          \* outcome of DataLoader.load: "table" or the exception
    df,                   \* the table returned by load / given to the aggregator
    analysis_result,      \* outcome of generate_full_analysis: "bundle" or the exception
    analysis,             \* the bundle
    events,               \* result of identify_sound_events
    arg_min_consecutive,  \* the threshold given to identify_sound_events
    args,                 \* the arguments of a function of config.py called on its own
    ret,                  \* what that call returned
    llm,                  \* the external service: whether a client exists, and the
                          \* value call_groq returned to the step that is running
    calls,                \* number of external calls issued, per generation step
    step,                 \* status of each generation step
    order,                \* the generation steps in the order they were entered
    out,                  \* the outputs of generate_all_interpretations
    clients               \* the client records and sensor files on disk, and the clock

vars == <<pc, raw_data, validation_errors, validation_warnings, load_result, df,
          analysis_result, analysis, events, arg_min_consecutive, args, ret,
          llm, calls, step, order, out, clients>>

loaderVars == <<raw_data, validation_errors, validation_warnings, load_result>>
tableVars == <<df, analysis_result, analysis>>
interpVars == <<llm, calls, step, order, out>>
callVars == <<args, ret>>

(***************************************************************************)
(* Bounds of the model.                                                    *)
(***************************************************************************)
\* longest file given to the loader
MaxSegs == 3
\* longest file behind a bundle given to the interpretation client
MaxInterpSegs == 2
\* longest table given to identify_sound_events alone
MaxRows == 7
\* largest min_consecutive given to identify_sound_events alone
MaxThreshold == 4
\* largest number of runs in a long table
MaxRuns == 56
\* longest table of the tables that differ by their ratings
MaxRatingRows == 6
\* longest file of the files that differ by their hours
MaxHourRows == 3
\* largest level given to get_note_from_db alone, in tenths of a dB
MaxDbValue == 1300
\* the labels of a table of LabelSpec
MaxLabels == 13
\* longest table of the tables whose levels are next to a bound
MaxLevelRows == 3
\* longest table of the tables with rows that have no label
MaxGapRows == 7

(***************************************************************************)
(* Python values.                                                          *)
(***************************************************************************)
\* Python None in a column of strings
None == "None"
\* NaN / None in a numeric column
NaN == -999999

Max(a, b) == IF a >= b THEN a ELSE b
Min(a, b) == IF a <= b THEN a ELSE b

\* the sum of s, by halves
RECURSIVE SumSeq(_)
SumSeq(s) ==
    IF Len(s) = 0 THEN 0
    ELSE IF Len(s) = 1 THEN s[1]
    ELSE LET h == Len(s) \div 2
         IN  SumSeq(SubSeq(s, 1, h)) + SumSeq(SubSeq(s, h + 1, Len(s)))

\* the sequences of ss one after the other, by halves
RECURSIVE Concat(_)
Concat(ss) ==
    IF Len(ss) = 0 THEN <<>>
    ELSE IF Len(ss) = 1 THEN ss[1]
    ELSE LET h == Len(ss) \div 2
         IN  Concat(SubSeq(ss, 1, h)) \o Concat(SubSeq(ss, h + 1, Len(ss)))

(***************************************************************************)
(* data_loader.py                                                          *)
(***************************************************************************)
REQUIRED_FIELDS ==
    <<"box_id", "timestamp", "LAeq_segment_dB", "LAeq_rating", "top_5_labels", "top_5_probs">>

RequiredSet == {REQUIRED_FIELDS[i] : i \in 1..Len(REQUIRED_FIELDS)}

VALID_RATINGS == {"A", "B", "C", "D", "E", "F", "G"}

\* A timestamp string: whether it matches "%Y-%m-%d %H:%M:%S", and the hour it names.
GoodTs(h) == [fmt |-> TRUE, hour |-> h]
BadTs == [fmt |-> FALSE, hour |-> 0]

\* A JSON segment.  keys: the keys present; badtype: the keys whose value has
\* another JSON type than the loader expects (a string for a number, a string for a list).
Seg(keys, badtype, ts, db, rating, labels, probs, lmin) ==
    [keys |-> keys, badtype |-> badtype, timestamp |-> ts, LAeq_segment_dB |-> db,
     LAeq_rating |-> rating, top_5_labels |-> labels, top_5_probs |-> probs,
     Lmin_dB |-> lmin]

AllKeys == RequiredSet \cup {"Lmin_dB"}

\* Well-formed segments.
GoodSegments ==
    { Seg(AllKeys, {}, GoodTs(8), 500, "D", <<"Vehicle", "Music">>, <<43, 40>>, -580),
      Seg(AllKeys, {}, GoodTs(23), 400, "C", <<"Music">>, <<40>>, -1000),
      Seg(RequiredSet, {}, GoodTs(6), 200, "A", <<"Speech">>, <<19>>, NaN),
      \* both lists empty: no primary label
      Seg(RequiredSet, {}, GoodTs(8), 450, "C", <<>>, <<>>, NaN) }

\* Segments with one non-fatal defect each.
WarnSegments ==
    { Seg(RequiredSet, {}, BadTs, 500, "D", <<"Vehicle">>, <<43>>, NaN),
      Seg(RequiredSet, {}, GoodTs(8), 1600, "G", <<"Vehicle">>, <<43>>, NaN),
      Seg(RequiredSet, {}, GoodTs(8), -10, "A", <<"Music">>, <<43>>, NaN),
      Seg(RequiredSet, {}, GoodTs(23), 500, "Z", <<"Music">>, <<43>>, NaN),
      Seg(RequiredSet, {}, GoodTs(8), 500, "D", <<"Vehicle", "Music">>, <<43>>, NaN),
      Seg(RequiredSet, {}, GoodTs(23), 500, "D", <<>>, <<43>>, NaN),
      Seg(AllKeys, {}, GoodTs(8), 500, "D", <<"Vehicle">>, <<43>>, -1500),
      \* the four defects that are neither a missing field nor a timestamp, at once
      Seg(AllKeys, {}, GoodTs(6), 1600, "Z", <<"Vehicle", "Music">>, <<43>>, -1500) }

\* Segments with one fatal defect each.
ErrorSegments ==
    { Seg(RequiredSet \ {f}, {}, GoodTs(8), 500, "D", <<"Vehicle">>, <<43>>, NaN) :
        f \in {"box_id", "timestamp", "LAeq_rating", "top_5_probs"} }
    \cup
    { Seg(RequiredSet \ {"LAeq_segment_dB"}, {}, GoodTs(8), NaN, "D", <<"Vehicle">>, <<43>>, NaN),
      Seg(RequiredSet \ {"top_5_labels"}, {}, GoodTs(8), 500, "D", <<>>, <<43>>, NaN),
      Seg(RequiredSet, {"LAeq_segment_dB"}, GoodTs(8), NaN, "D", <<"Vehicle">>, <<43>>, NaN),
      Seg(RequiredSet, {"top_5_labels"}, GoodTs(8), 500, "D", <<>>, <<43>>, NaN) }

SegmentPool == GoodSegments \cup WarnSegments \cup ErrorSegments

\* The files: every list of at most MaxSegs segments of the pool.
Files == UNION { [1..n -> SegmentPool] : n \in 0..MaxSegs }

\* _validate_segment: the entries it appends to validation_errors and to
\* validation_warnings for the segment at position index (0-based).
MissingErrors(segment, index) ==
    LET Miss(i) == IF REQUIRED_FIELDS[i] \in segment.keys THEN <<>>
                   ELSE << [index |-> index, what |-> "manquant", field |-> REQUIRED_FIELDS[i]] >>
    IN  Concat([i \in 1..Len(REQUIRED_FIELDS) |-> Miss(i)])

\* _validate_segment that puts the out-of-range level among the errors
SegmentErrors_RangeIsError(segment, index) ==
    MissingErrors(segment, index)
    \o (IF "LAeq_segment_dB" \in segment.keys
           /\ (segment.LAeq_segment_dB < 0 \/ segment.LAeq_segment_dB > 1500)
        THEN << [index |-> index, what |-> "hors limites", field |-> "LAeq_segment_dB"] >>
        ELSE <<>>)

SegmentErrors(segment, index) ==
    MissingErrors(segment, index)
    \o (IF "LAeq_segment_dB" \in segment.keys /\ "LAeq_segment_dB" \in segment.badtype
        THEN << [index |-> index, what |-> "pas un nombre", field |-> "LAeq_segment_dB"] >>
        ELSE <<>>)
    \o (IF /\ "top_5_labels" \in segment.keys /\ "top_5_probs" \in segment.keys
           /\ (segment.badtype \cap {"top_5_labels", "top_5_probs"}) # {}
        THEN << [index |-> index, what |-> "pas des listes", field |-> "top_5_labels"] >>
        ELSE <<>>)

SegmentWarnings(segment, index) ==
    (IF "timestamp" \in segment.keys /\ ~segment.timestamp.fmt
     THEN << [index |-> index, what |-> "format timestamp invalide"] >> ELSE <<>>)
    \o (IF /\ "LAeq_segment_dB" \in segment.keys
           /\ "LAeq_segment_dB" \notin segment.badtype
           /\ (segment.LAeq_segment_dB < 0 \/ segment.LAeq_segment_dB > 1500)
        THEN << [index |-> index, what |-> "LAeq_segment_dB hors limites"] >> ELSE <<>>)
    \o (IF "LAeq_rating" \in segment.keys /\ segment.LAeq_rating \notin VALID_RATINGS
        THEN << [index |-> index, what |-> "LAeq_rating invalide"] >> ELSE <<>>)
    \o (IF /\ "top_5_labels" \in segment.keys /\ "top_5_probs" \in segment.keys
           /\ (segment.badtype \cap {"top_5_labels", "top_5_probs"}) = {}
           /\ Len(segment.top_5_labels) # Len(segment.top_5_probs)
        THEN << [index |-> index, what |-> "pas la meme taille"] >> ELSE <<>>)
    \o (IF "Lmin_dB" \in segment.keys /\ segment.Lmin_dB < -1000
        THEN << [index |-> index, what |-> "Lmin_dB aberrant"] >> ELSE <<>>)

\* validate: the two lists it leaves in the loader, and what it returns.
EmptyFileError == << [index |-> -1, what |-> "Le fichier JSON est vide", field |-> "-"] >>

ValidateErrors(data) ==
    IF Len(data) = 0 THEN EmptyFileError
    ELSE Concat([i \in 1..Len(data) |-> SegmentErrors(data[i], i - 1)])

ValidateWarnings(data) ==
    IF Len(data) = 0 THEN <<>>
    ELSE Concat([i \in 1..Len(data) |-> SegmentWarnings(data[i], i - 1)])

\* validate that stops at the first segment
validate_FirstSegmentOnly(data) ==
    Len(data) > 0 /\ SegmentErrors(data[1], 0) = <<>>

validate(data) == ValidateErrors(data) = <<>>

\* to_dataframe.
DerivedColumns == {"timestamp_dt", "hour", "is_night", "top_label", "top_prob"}

\* line 280 with 7h counted in the night
IsNight_UntilSeven(h) == h >= 22 \/ h <= 7

IsNight(h) == h >= 22 \/ h < 7

TopLabel(x) == IF x # <<>> THEN x[1] ELSE None
TopProb(x) == IF x # <<>> THEN x[1] ELSE 0

\* line 288 with the threshold 0: every negative Lmin_dB is nulled
CleanLmin_AnyNegative(segment) ==
    IF "Lmin_dB" \notin segment.keys THEN NaN
    ELSE IF segment.Lmin_dB < 0 THEN NaN ELSE segment.Lmin_dB

\* line 288: the value of Lmin_dB kept in the table
CleanLmin(segment) ==
    IF "Lmin_dB" \notin segment.keys THEN NaN
    ELSE IF segment.Lmin_dB < -1000 THEN NaN ELSE segment.Lmin_dB

Row(segment) ==
    [timestamp |-> segment.timestamp,
     LAeq_segment_dB |-> segment.LAeq_segment_dB,
     LAeq_rating |-> segment.LAeq_rating,
     top_5_labels |-> segment.top_5_labels,
     top_5_probs |-> segment.top_5_probs,
     Lmin_dB |-> CleanLmin(segment),
     hour |-> segment.timestamp.hour,
     is_night |-> IsNight(segment.timestamp.hour),
     top_label |-> TopLabel(segment.top_5_labels),
     top_prob |-> TopProb(segment.top_5_probs)]

\* pd.to_datetime(..., format=...) raises on the first string that does not match
ToDatetimeRaises(data) == \E i \in 1..Len(data) : ~data[i].timestamp.fmt

to_dataframe(data) ==
    [columns |-> UNION {data[i].keys : i \in 1..Len(data)} \cup DerivedColumns,
     rows |-> [i \in 1..Len(data) |-> Row(data[i])]]

NoTable == [columns |-> {}, rows |-> <<>>]

(***************************************************************************)
(* config.py                                                               *)
(***************************************************************************)
\* DPS_SCALE, in dict order: the letter and its max_db
DPS_SCALE ==
    << [note |-> "A", max_db |-> 20], [note |-> "B", max_db |-> 30],
       [note |-> "C", max_db |-> 45], [note |-> "D", max_db |-> 60],
       [note |-> "E", max_db |-> 80], [note |-> "F", max_db |-> 100],
       [note |-> "G", max_db |-> 120] >>

\* get_note_from_db of the value num/den tenths of a dB (den > 0):
\* the first band with db_value <= max_db, "G" when there is none.
RECURSIVE NoteScan(_, _, _)
NoteScan(num, den, i) ==
    IF i > Len(DPS_SCALE) THEN "G"
    ELSE IF num <= DPS_SCALE[i].max_db * 10 * den THEN DPS_SCALE[i].note
    ELSE NoteScan(num, den, i + 1)

\* get_note_from_db that gives negative values no band
get_note_from_db_NegativeIsG(num, den) == IF num < 0 THEN "G" ELSE NoteScan(num, den, 1)

\* get_note_from_db with db_value < max_db: the bounds are exclusive
get_note_from_db_Exclusive(num, den) == NoteScan(num + 1, den, 1)

get_note_from_db(num, den) == NoteScan(num, den, 1)

\* SOUND_FAMILIES, in dict order
SOUND_FAMILIES ==
    <<
       [family |-> "circulation",
        labels |-> {"Vehicle", "Car", "Engine", "Motorcycle", "Truck",
                    "Traffic noise, roadway noise", "Accelerating, revving, vroom",
                    "Motor vehicle (road)", "Bus", "Car passing by", "Race car, auto racing",
                    "Tire squeal", "Skidding", "Vehicle horn, car horn, honking",
                    "Emergency vehicle", "Ambulance (siren)", "Police car (siren)",
                    "Fire engine, fire truck (siren)"}],
       [family |-> "transport",
        labels |-> {"Train", "Rail transport", "Train whistle", "Train horn",
                    "Subway, metro, underground", "Aircraft", "Aircraft engine", "Jet engine",
                    "Helicopter", "Fixed-wing aircraft, airplane"}],
       [family |-> "voisinage",
        labels |-> {"Speech", "Male speech, man speaking", "Female speech, woman speaking",
                    "Child speech, kid speaking", "Conversation", "Narration, monologue", "Shout",
                    "Yell", "Screaming", "Children shouting", "Laughter", "Crying, sobbing",
                    "Baby cry, infant cry", "Crowd", "Chatter",
                    "Hubbub, speech noise, speech babble", "Children playing", "Walk, footsteps",
                    "Run", "Clapping", "Applause"}],
       [family |-> "musique",
        labels |-> {"Music", "Singing", "Musical instrument", "Pop music", "Rock music",
                    "Hip hop music", "Classical music", "Jazz", "Electronic music", "Guitar",
                    "Piano", "Drum", "Drum kit", "Bass guitar"}],
       [family |-> "interieur",
        labels |-> {"Inside, small room", "Inside, large room or hall", "Inside, public space",
                    "Door", "Knock", "Slam", "Sliding door", "Cupboard open or close",
                    "Drawer open or close", "Squeak", "Creak"}],
       [family |-> "electromenager",
        labels |-> {"Vacuum cleaner", "Blender", "Microwave oven", "Hair dryer", "Mechanical fan",
                    "Air conditioning", "Washing machine", "Dishes, pots, and pans",
                    "Cutlery, silverware", "Chopping (food)", "Frying (food)", "Water tap, faucet",
                    "Toilet flush", "Boiling"}],
       [family |-> "nature",
        labels |-> {"Bird", "Bird vocalization, bird call, bird song", "Chirp, tweet", "Rain",
                    "Raindrop", "Rain on surface", "Thunder", "Thunderstorm", "Wind",
                    "Rustling leaves", "Water", "Stream", "Ocean", "Waves, surf"}],
       [family |-> "travaux",
        labels |-> {"Drill", "Hammer", "Sawing", "Power tool", "Jackhammer", "Sanding",
                    "Filing (rasp)", "Chainsaw", "Lawn mower"}],
       [family |-> "alertes",
        labels |-> {"Alarm", "Alarm clock", "Siren", "Smoke detector, smoke alarm", "Fire alarm",
                    "Car alarm", "Buzzer", "Telephone bell ringing", "Ringtone"}],
       [family |-> "animaux",
        labels |-> {"Dog", "Bark", "Cat", "Meow", "Purr", "Domestic animals, pets"}]
    >>

RECURSIVE FamilyScan(_, _)
FamilyScan(label, i) ==
    IF i > Len(SOUND_FAMILIES) THEN "autres"
    ELSE IF label \in SOUND_FAMILIES[i].labels THEN SOUND_FAMILIES[i].family
    ELSE FamilyScan(label, i + 1)

\* get_sound_family without line 391: no family for a label of no list
get_sound_family_NoDefault(label) ==
    IF \E i \in 1..Len(SOUND_FAMILIES) : label \in SOUND_FAMILIES[i].labels
    THEN FamilyScan(label, 1) ELSE None

get_sound_family(label) == FamilyScan(label, 1)

NORMAL_SOUNDS ==
    {"Bird", "Bird vocalization, bird call, bird song", "Chirp, tweet", "Rain",
     "Raindrop", "Wind", "Rustling leaves", "Music", "Singing", "Speech",
     "Conversation", "Water", "Stream", "Clock", "Tick-tock"}
PROBLEMATIC_SOUNDS ==
    {"Vehicle", "Car", "Truck", "Motorcycle", "Traffic noise, roadway noise",
     "Aircraft", "Jet engine", "Train", "Drill", "Jackhammer", "Hammer", "Power tool",
     "Chainsaw", "Alarm", "Siren", "Car alarm", "Smoke detector, smoke alarm",
     "Screaming", "Shout", "Children shouting", "Baby cry, infant cry", "Dog", "Bark"}

is_sound_problematic(label) == label \in PROBLEMATIC_SOUNDS
is_sound_normal(label) == label \in NORMAL_SOUNDS

\* the order of Python's (and pandas') string comparison on the names the model uses
SortedNames ==
    <<"Aircraft", "Bark", "Bird", "Bird vocalization, bird call, bird song", "Car",
      "Chirp, tweet", "Conversation", "Dog", "Drill", "Engine", "Hammer", "Jackhammer",
      "Jet engine", "Motorcycle", "Music", "Rain", "Raindrop", "Rustling leaves",
      "Silence", "Singing", "Speech", "Traffic noise, roadway noise", "Train", "Truck",
      "Vehicle", "Wind", "alertes", "animaux", "autres", "circulation",
      "electromenager", "interieur", "musique", "nature", "transport", "travaux",
      "voisinage">>

NameRank(x) == CHOOSE i \in 1..Len(SortedNames) : SortedNames[i] = x

(***************************************************************************)
(* Arithmetic of the aggregator                                            *)
(***************************************************************************)
\* round(n/d) to the nearest integer, ties to even (d > 0)
RoundDiv(n, d) ==
    LET q == (2 * n + d) \div (2 * d)
        tie == (2 * n + d) % (2 * d) = 0
    IN  IF tie /\ q % 2 = 1 THEN q - 1 ELSE q

Column(rows, c) == [i \in 1..Len(rows) |-> rows[i][c]]

MaxSeq(s) == CHOOSE m \in {s[i] : i \in 1..Len(s)} : \A i \in 1..Len(s) : Max(m, s[i]) = m
MinSeq(s) == CHOOSE m \in {s[i] : i \in 1..Len(s)} : \A i \in 1..Len(s) : Min(m, s[i]) = m

\* the values of s in ascending order
SortAsc(s) ==
    LET Below(v) == Cardinality({i \in 1..Len(s) : s[i] < v})
        UpTo(v) == Cardinality({i \in 1..Len(s) : s[i] <= v})
    IN  [k \in 1..Len(s) |->
            CHOOSE v \in {s[i] : i \in 1..Len(s)} : Below(v) < k /\ k <= UpTo(v)]

\* the distinct values of s in order of first appearance
Distinct(s) ==
    LET first == {i \in 1..Len(s) : \A j \in 1..(i - 1) : s[j] # s[i]}
    IN  [k \in 1..Cardinality(first) |->
            s[CHOOSE i \in first : Cardinality({j \in first : j <= i}) = k]]

Count(s, v) == Cardinality({i \in 1..Len(s) : s[i] = v})

DayRows(rows) == SelectSeq(rows, LAMBDA r : ~r.is_night)
NightRows(rows) == SelectSeq(rows, LAMBDA r : r.is_night)
PeriodRows(rows, period) == IF period = "jour" THEN DayRows(rows) ELSE NightRows(rows)

(***************************************************************************)
(* aggregator.py                                                           *)
(***************************************************************************)
\* df[c].mean() rounded to one decimal; the table is not empty
MeanRounded(rows, c) == RoundDiv(SumSeq(Column(rows, c)), Len(rows))

Median(s) ==
    LET o == SortAsc(s)
        n == Len(s)
    IN  IF n % 2 = 1 THEN o[(n + 1) \div 2] ELSE RoundDiv(o[n \div 2] + o[n \div 2 + 1], 2)

\* line 51, round(len(df) * 9 / 3600, 2), in hundredths of an hour.  When the
\* quotient is half-way between two hundredths (len(df) = 2, 6, 10, ...) the
\* binary value of the quotient decides: these are the lengths below 400 for
\* which it is above the half and round() goes up.
DurationRoundsUp ==
    {2, 10, 14, 22, 26, 34, 38, 46, 54, 66, 78, 90, 102, 106, 110, 126, 130, 134, 150,
     154, 158, 162, 178, 182, 186, 202, 206, 210, 214, 218, 222, 254, 258, 262, 266,
     270, 274, 302, 306, 310, 314, 318, 322, 350, 354, 358, 362, 366, 370, 374}

DurationHours(n) ==
    IF n % 4 = 2 THEN (IF n \in DurationRoundsUp THEN (n + 2) \div 4 ELSE (n - 2) \div 4)
    ELSE RoundDiv(n * 9 * 100, 3600)

calculate_global_stats(rows) ==
    [total_segments |-> Len(rows),
     duration_hours |-> DurationHours(Len(rows)),
     db_mean |-> MeanRounded(rows, "LAeq_segment_dB"),
     db_min |-> MinSeq(Column(rows, "LAeq_segment_dB")),
     db_max |-> MaxSeq(Column(rows, "LAeq_segment_dB")),
     db_median |-> Median(Column(rows, "LAeq_segment_dB")),
     note_globale |-> get_note_from_db(SumSeq(Column(rows, "LAeq_segment_dB")), Len(rows))]

\* stats_for_period without lines 79-80: zeros for a period without segments
stats_for_period_ZeroWhenEmpty(data) ==
    IF Len(data) = 0 THEN [mean |-> 0, min |-> 0, max |-> 0, count |-> 0]
    ELSE [mean |-> MeanRounded(data, "LAeq_segment_dB"),
          min |-> MinSeq(Column(data, "LAeq_segment_dB")),
          max |-> MaxSeq(Column(data, "LAeq_segment_dB")),
          count |-> Len(data)]

stats_for_period(data) ==
    IF Len(data) = 0 THEN [mean |-> NaN, min |-> NaN, max |-> NaN, count |-> 0]
    ELSE [mean |-> MeanRounded(data, "LAeq_segment_dB"),
          min |-> MinSeq(Column(data, "LAeq_segment_dB")),
          max |-> MaxSeq(Column(data, "LAeq_segment_dB")),
          count |-> Len(data)]

calculate_day_night_stats(rows) ==
    [jour |-> stats_for_period(DayRows(rows)), nuit |-> stats_for_period(NightRows(rows))]

\* calculate_rating_distribution that grades each segment from its level
calculate_rating_distribution_FromDb(rows) ==
    [rating \in VALID_RATINGS |->
        Cardinality({i \in 1..Len(rows) : get_note_from_db(rows[i].LAeq_segment_dB, 1) = rating})]

calculate_rating_distribution(rows) ==
    [rating \in VALID_RATINGS |-> Count(Column(rows, "LAeq_rating"), rating)]

RatingOrder == <<"A", "B", "C", "D", "E", "F", "G">>

\* calculate_rating_percentages that truncates each percentage instead of rounding it
calculate_rating_percentages_Truncated(rows) ==
    LET total == Cardinality({i \in 1..Len(rows) : rows[i].LAeq_rating \in VALID_RATINGS})
    IN  IF total = 0 THEN [k \in VALID_RATINGS |-> 0]
        ELSE [k \in VALID_RATINGS |->
                (Count(Column(rows, "LAeq_rating"), k) * 1000) \div total]

\* percentages are in tenths of a percent
calculate_rating_percentages(rows) ==
    LET distribution == calculate_rating_distribution(rows)
        total == SumSeq([i \in 1..7 |-> distribution[RatingOrder[i]]])
    IN  IF total = 0 THEN [k \in VALID_RATINGS |-> 0]
        ELSE [k \in VALID_RATINGS |-> RoundDiv(distribution[k] * 1000, total)]

\* value_counts(): the non-null values by count, largest first; equal counts
\* keep their order of first appearance
RECURSIVE SortByCount(_, _)
SortByCount(vals, col) ==
    IF vals = <<>> THEN <<>>
    ELSE LET best == MaxSeq([i \in 1..Len(vals) |-> Count(col, vals[i])])
             i == CHOOSE k \in 1..Len(vals) :
                      /\ Count(col, vals[k]) = best
                      /\ \A j \in 1..(k - 1) : Count(col, vals[j]) # best
         IN  <<vals[i]>> \o SortByCount(SubSeq(vals, 1, i - 1) \o SubSeq(vals, i + 1, Len(vals)), col)

\* value_counts that keeps the order of first appearance
value_counts_Unsorted(col) == SelectSeq(Distinct(col), LAMBDA v : v # None)

value_counts(col) == SortByCount(SelectSeq(Distinct(col), LAMBDA v : v # None), col)

\* [:n] that keeps the last n entries
head_KeepsLast(s, n) == SubSeq(s, Len(s) - Min(n, Len(s)) + 1, Len(s))

head(s, n) == SubSeq(s, 1, Min(n, Len(s)))

RowsWith(rows, c, v) == SelectSeq(rows, LAMBDA r : r[c] = v)

TopSoundEntry(rows, label) ==
    LET mine == RowsWith(rows, "top_label", label)
    IN  [label |-> label,
         count |-> Len(mine),
         percentage |-> RoundDiv(Len(mine) * 1000, Len(rows)),
         avg_score |-> MeanRounded(mine, "top_prob"),
         avg_db |-> MeanRounded(mine, "LAeq_segment_dB"),
         note |-> get_note_from_db(SumSeq(Column(mine, "LAeq_segment_dB")), Len(mine)),
         family |-> get_sound_family(label),
         is_problematic |-> is_sound_problematic(label),
         is_normal |-> is_sound_normal(label)]

calculate_top_sounds(rows, top_n) ==
    IF Len(rows) = 0 THEN <<>>
    ELSE LET labels == head(value_counts(Column(rows, "top_label")), top_n)
         IN  [i \in 1..Len(labels) |-> TopSoundEntry(rows, labels[i])]

calculate_top_sounds_by_period(rows, period, top_n) ==
    LET df_period == PeriodRows(rows, period)
    IN  IF Len(df_period) = 0 THEN <<>> ELSE calculate_top_sounds(df_period, top_n)

\* the column df_copy["family"]
FamilyColumn(rows) == [i \in 1..Len(rows) |-> get_sound_family(rows[i].top_label)]

FamiliesOf(rows) == {get_sound_family(rows[i].top_label) : i \in 1..Len(rows)}

calculate_family_distribution(rows) ==
    [f \in FamiliesOf(rows) |-> Count(FamilyColumn(rows), f)]

calculate_family_percentages(rows) ==
    LET distribution == calculate_family_distribution(rows)
    IN  [f \in DOMAIN distribution |-> RoundDiv(distribution[f] * 1000, Len(rows))]

\* the groups left in the order groupby yields them
SortByPercentage_Unsorted(items) == items

\* sorted(..., key=percentage, reverse=True) of the groups, which groupby yields
\* in ascending order of the family name; Python's sort is stable
RECURSIVE SortByPercentage(_)
SortByPercentage(items) ==
    IF items = <<>> THEN <<>>
    ELSE LET best == MaxSeq([i \in 1..Len(items) |-> items[i].percentage])
             i == CHOOSE k \in 1..Len(items) :
                      /\ items[k].percentage = best
                      /\ \A j \in 1..(k - 1) : items[j].percentage # best
         IN  <<items[i]>> \o SortByPercentage(SubSeq(items, 1, i - 1) \o SubSeq(items, i + 1, Len(items)))

RECURSIVE SortNames(_)
SortNames(S) ==
    IF S = {} THEN <<>>
    ELSE LET x == CHOOSE y \in S : \A z \in S : NameRank(y) <= NameRank(z)
         IN  <<x>> \o SortNames(S \ {x})

calculate_family_by_period(rows, period) ==
    LET df_period == PeriodRows(rows, period)
        fams == SortNames(FamiliesOf(df_period))
        Stat(f) ==
            LET mine == SelectSeq(df_period, LAMBDA r : get_sound_family(r.top_label) = f)
            IN  [family |-> f,
                 count |-> Len(mine),
                 percentage |-> RoundDiv(Len(mine) * 1000, Len(df_period)),
                 avg_db |-> MeanRounded(mine, "LAeq_segment_dB"),
                 note |-> get_note_from_db(SumSeq(Column(mine, "LAeq_segment_dB")), Len(mine))]
    IN  IF Len(df_period) = 0 THEN <<>>
        ELSE SortByPercentage([i \in 1..Len(fams) |-> Stat(fams[i])])

\* x.mode(): the most frequent non-null values of a group, in ascending order
Mode(col) ==
    LET vals == {col[i] : i \in 1..Len(col)} \ {None}
        best == {v \in vals : \A w \in vals : Count(col, v) >= Count(col, w)}
    IN  SortNames(best)

HoursOf(rows) == {rows[i].hour : i \in 1..Len(rows)}

\* x.mode()[0] raises KeyError when the mode is empty: every top_label of the hour is null
HourlyRaises(rows) ==
    \E h \in HoursOf(rows) : Mode(Column(RowsWith(rows, "hour", h), "top_label")) = <<>>

HourStat(rows, h) ==
    LET mine == RowsWith(rows, "hour", h)
    IN  [hour |-> h,
         db_mean |-> MeanRounded(mine, "LAeq_segment_dB"),
         db_max |-> MaxSeq(Column(mine, "LAeq_segment_dB")),
         db_min |-> MinSeq(Column(mine, "LAeq_segment_dB")),
         count |-> Len(mine),
         dominant_sound |-> Mode(Column(mine, "top_label"))[1]]

RECURSIVE SortHours(_)
SortHours(S) ==
    IF S = {} THEN <<>>
    ELSE LET h == CHOOSE x \in S : \A y \in S : x <= y
         IN  <<h>> \o SortHours(S \ {h})

calculate_hourly_stats(rows) ==
    LET hours == SortHours(HoursOf(rows))
    IN  [i \in 1..Len(hours) |-> HourStat(rows, hours[i])]

\* identify_sound_events.  current_segments holds the positions (1-based) of the
\* rows accumulated; an event keeps those of its first and last row beside their
\* timestamps.
Truthy(label) == label # None /\ label # ""

\* events.append that takes end_time from the first row of the run
MakeEvent_EndIsStart(rows, current_label, current_segments) ==
    LET segs == [i \in 1..Len(current_segments) |-> rows[current_segments[i]]]
    IN  [label |-> current_label,
         first |-> current_segments[1],
         last |-> current_segments[1],
         start_time |-> segs[1].timestamp,
         end_time |-> segs[1].timestamp,
         duration_segments |-> Len(current_segments),
         duration_seconds |-> Len(current_segments) * 9,
         avg_db |-> MeanRounded(segs, "LAeq_segment_dB"),
         max_db |-> MaxSeq(Column(segs, "LAeq_segment_dB")),
         avg_score |-> MeanRounded(segs, "top_prob"),
         family |-> get_sound_family(current_label),
         is_problematic |-> is_sound_problematic(current_label)]

MakeEvent(rows, current_label, current_segments) ==
    LET segs == [i \in 1..Len(current_segments) |-> rows[current_segments[i]]]
    IN  [label |-> current_label,
         first |-> current_segments[1],
         last |-> current_segments[Len(current_segments)],
         start_time |-> segs[1].timestamp,
         end_time |-> segs[Len(segs)].timestamp,
         duration_segments |-> Len(current_segments),
         duration_seconds |-> Len(current_segments) * 9,
         avg_db |-> MeanRounded(segs, "LAeq_segment_dB"),
         max_db |-> MaxSeq(Column(segs, "LAeq_segment_dB")),
         avg_score |-> MeanRounded(segs, "top_prob"),
         family |-> get_sound_family(current_label),
         is_problematic |-> is_sound_problematic(current_label)]

\* lines 390 and 414 without the threshold: every labelled run is flushed
Flushes_NoThreshold(current_label, current_segments, min_consecutive) ==
    Truthy(current_label)

\* lines 390 and 414 without "current_label and": a run without a label is flushed too
Flushes_AnyLabel(current_label, current_segments, min_consecutive) ==
    Len(current_segments) > 0 /\ Len(current_segments) >= min_consecutive

\* lines 390 and 414: whether the run that ends is flushed as an event
Flushes(current_label, current_segments, min_consecutive) ==
    Truthy(current_label) /\ Len(current_segments) >= min_consecutive

\* the state of the loop of lines 381-410 after the rows lo..hi, from the state st
\* before them; the rows are taken in order, the state after the first half of
\* the range being a value before the second half is entered
RECURSIVE EventLoop(_, _, _, _, _)
EventLoop(rows, lo, hi, min_consecutive, st) ==
    IF lo > hi THEN st
    ELSE IF lo = hi
    THEN IF rows[lo].top_label = st.current_label
         THEN [st EXCEPT !.current_segments = Append(@, lo)]
         ELSE [current_label |-> rows[lo].top_label,
               current_segments |-> <<lo>>,
               events |-> IF Flushes(st.current_label, st.current_segments, min_consecutive)
                          THEN Append(st.events,
                                      MakeEvent(rows, st.current_label, st.current_segments))
                          ELSE st.events]
    ELSE LET mid == (lo + hi) \div 2
         IN  CHOOSE after \in { EventLoop(rows, mid + 1, hi, min_consecutive, half) :
                                  half \in {EventLoop(rows, lo, mid, min_consecutive, st)} } : TRUE

\* identify_sound_events that flushes a run as soon as it reaches min_consecutive
\* rows and starts a new run of the same label
RECURSIVE ChunkLoop(_, _, _, _, _, _)
ChunkLoop(rows, i, min_consecutive, current_label, current_segments, evs) ==
    IF i > Len(rows) THEN evs
    ELSE LET segs == IF rows[i].top_label = current_label
                     THEN Append(current_segments, i) ELSE <<i>>
         IN  IF Flushes(rows[i].top_label, segs, min_consecutive)
             THEN ChunkLoop(rows, i + 1, min_consecutive, rows[i].top_label, <<>>,
                            Append(evs, MakeEvent(rows, rows[i].top_label, segs)))
             ELSE ChunkLoop(rows, i + 1, min_consecutive, rows[i].top_label, segs, evs)

identify_sound_events_Chunked(rows, min_consecutive) ==
    ChunkLoop(rows, 1, min_consecutive, None, <<>>, <<>>)

identify_sound_events(rows, min_consecutive) ==
    LET st == EventLoop(rows, 1, Len(rows), min_consecutive,
                        [current_label |-> None, current_segments |-> <<>>, events |-> <<>>])
    IN  IF Flushes(st.current_label, st.current_segments, min_consecutive)
        THEN Append(st.events, MakeEvent(rows, st.current_label, st.current_segments))
        ELSE st.events

\* the default of min_consecutive
MinConsecutive == 3
\* generate_full_analysis keeps the first 50 events
MaxEvents == 50

classify_sounds_for_report(rows) ==
    LET top_sounds == calculate_top_sounds(rows, 30)
        IsNormal(s) == s.is_normal \/ (~s.is_problematic /\ s.percentage > 100)
        IsExceptional(s) == ~s.is_normal /\ (s.is_problematic \/ s.percentage <= 100)
        IsFrequent(s) == ~s.is_normal /\ s.is_problematic /\ s.percentage > 50
        Labels(ss) == [i \in 1..Len(ss) |-> ss[i].label]
    IN  [normaux |-> head(Labels(SelectSeq(top_sounds, IsNormal)), 10),
         exceptionnels |-> head(Labels(SelectSeq(top_sounds, IsExceptional)), 10),
         problematiques_frequents |-> Labels(SelectSeq(top_sounds, IsFrequent))]

\* generate_full_analysis: the bundle, when no sub-computation raises
Bundle(rows) ==
    [global |-> calculate_global_stats(rows),
     day_night |-> calculate_day_night_stats(rows),
     ratings |-> [distribution |-> calculate_rating_distribution(rows),
                  percentages |-> calculate_rating_percentages(rows)],
     sounds |-> [top_5 |-> calculate_top_sounds(rows, 5),
                 top_5_jour |-> calculate_top_sounds_by_period(rows, "jour", 5),
                 top_5_nuit |-> calculate_top_sounds_by_period(rows, "nuit", 5),
                 families |-> calculate_family_distribution(rows),
                 families_pct |-> calculate_family_percentages(rows),
                 families_jour |-> calculate_family_by_period(rows, "jour"),
                 families_nuit |-> calculate_family_by_period(rows, "nuit"),
                 classification |-> classify_sounds_for_report(rows)],
     hourly |-> calculate_hourly_stats(rows),
     events |-> head(identify_sound_events(rows, MinConsecutive), MaxEvents)]

NoBundle == [made |-> FALSE]

\* line 220: the table with the "family" column added
WithFamily(table) ==
    [columns |-> table.columns \cup {"family"},
     rows |-> [i \in 1..Len(table.rows) |->
                 [c \in DOMAIN table.rows[i] \cup {"family"} |->
                    IF c = "family" THEN FamilyColumn(table.rows)[i] ELSE table.rows[i][c]]]]

\* The caller's table after calculate_family_distribution / calculate_family_by_period
\* written without the copy: the column lands in the caller's table.
FamilyInPlace(table) == WithFamily(table)

\* The caller's table had the families been written over its top_label column
TableAfterFamily_OverLabels(table) ==
    [columns |-> table.columns,
     rows |-> [i \in 1..Len(table.rows) |->
                 [table.rows[i] EXCEPT !.top_label = FamilyColumn(table.rows)[i]]]]

\* The caller's table after calculate_family_distribution (line 219) and
\* calculate_family_by_period (lines 262, 264): df_copy = df.copy() receives the
\* column, the caller's table is another object and keeps its content.
TableAfterFamily(table) ==
    LET df_copy == WithFamily(table)
    IN  table

(***************************************************************************)
(* llm_client.py                                                           *)
(***************************************************************************)
CategoryOrder == <<"fenetre", "mur", "plafond", "sol", "porte", "aeration">>
Categories == {CategoryOrder[i] : i \in 1..Len(CategoryOrder)}

\* A solution: its two costs (NaN: the key is missing or null) and whether the
\* costs are JSON numbers.
\* a solution whose two costs are exchanged
Sol_CostsExchanged(cmin, cmax) == [cout_min |-> cmax, cout_max |-> cmin, numeric |-> TRUE]

Sol(cmin, cmax) == [cout_min |-> cmin, cout_max |-> cmax, numeric |-> TRUE]
\* A category: solutions_kind is "list", or "null" when "solutions" is null.
Cat(name, priorite, sols) ==
    [name |-> name, priorite |-> priorite, solutions_kind |-> "list", solutions |-> sols]
\* A JSON value: jtype is "object", "list" or "null"; cats are the entries of an object.
Obj(cats) == [jtype |-> "object", cats |-> cats]

get_default_recommendations(note, families) ==
    LET Get(f) == IF f \in DOMAIN families THEN families[f] ELSE 0
        is_circulation == Get("circulation") > 300
        is_voisinage == Get("voisinage") > 200
        is_good == note \in {"A", "B", "C"}
        is_severe == note \in {"E", "F", "G"}
        fenetre_solutions ==
            <<Sol(50, 100), Sol(100, 200)>> \o (IF is_severe THEN <<Sol(3000, 6000)>> ELSE <<>>)
        mur_solutions ==
            <<Sol(100, 300)>> \o (IF is_severe THEN <<Sol(2000, 5000)>> ELSE <<>>)
        plafond_solutions ==
            IF is_voisinage \/ is_severe THEN <<Sol(3000, 8000)>> ELSE <<>>
    IN  Obj(<< Cat("fenetre",
                   IF is_circulation THEN "haute" ELSE IF ~is_good THEN "moyenne" ELSE "basse",
                   fenetre_solutions),
               Cat("mur", IF is_voisinage THEN "moyenne" ELSE "basse", mur_solutions),
               Cat("plafond", IF is_voisinage THEN "haute" ELSE "basse",
                   IF plafond_solutions # <<>> THEN plafond_solutions ELSE <<Sol(0, 0)>>),
               Cat("sol", "basse", <<Sol(100, 300), Sol(500, 1500)>>),
               Cat("porte", "moyenne", <<Sol(20, 50), Sol(500, 1500)>>),
               Cat("aeration", "basse", <<Sol(50, 150)>>) >>)

\* calculate_total_costs: whether it raises, and what it returns otherwise
AllSolutions(reco) ==
    Concat([i \in 1..Len(reco.cats) |-> reco.cats[i].solutions])

TotalCostsRaises(reco) ==
    \/ reco.jtype # "object"
    \/ \E i \in 1..Len(reco.cats) : reco.cats[i].solutions_kind = "null"
    \/ \E i \in 1..Len(AllSolutions(reco)) : ~AllSolutions(reco)[i].numeric

OrZero(x) == IF x = NaN THEN 0 ELSE x

calculate_total_costs(reco) ==
    LET sols == AllSolutions(reco)
    IN  [min |-> SumSeq([i \in 1..Len(sols) |-> OrZero(sols[i].cout_min)]),
         max |-> SumSeq([i \in 1..Len(sols) |-> OrZero(sols[i].cout_max)])]

\* JSON values the external service may answer with
JList == [jtype |-> "list", cats |-> <<>>]
JNull == [jtype |-> "null", cats |-> <<>>]
JConform ==
    Obj(<< Cat("fenetre", "haute", <<Sol(200, 400), Sol(0, 0)>>), Cat("mur", "basse", <<>>),
           Cat("porte", "basse", <<Sol(10, 20)>>), Cat("plafond", "basse", <<Sol(10, 20)>>),
           Cat("sol", "basse", <<Sol(10, NaN)>>), Cat("aeration", "moyenne", <<Sol(10, 20)>>) >>)
JPartial == Obj(<< Cat("fenetre", "haute", <<Sol(200, 400)>>) >>)
JTextCost ==
    Obj(<< Cat("fenetre", "haute", << [cout_min |-> 0, cout_max |-> 0, numeric |-> FALSE] >>) >>)
JNullSolutions ==
    Obj(<< [name |-> "fenetre", priorite |-> "haute", solutions_kind |-> "null",
            solutions |-> <<>>] >>)

\* two categories, one with the costs 50-100 and 0-0, the other without solutions
JTwoCategories ==
    Obj(<< Cat("fenetre", "haute", <<Sol(50, 100), Sol(0, 0)>>), Cat("mur", "basse", <<>>) >>)

JsonValues == {JList, JNull, JConform, JPartial, JTwoCategories, JTextCost, JNullSolutions}

\* What call_groq returns: None, or the content of the answer.
\*   kind:  "None", "empty" (the empty string) or "text"
\*   fence: "none", or how the text opens: "bare" (```), "json" (```json),
\*          "other" (``` and another word)
\*   body:  "json" when the text between the fences is a JSON document, "garbage"
\*          when it is not (prose, truncated JSON)
Answer(kind, fence, body, value) ==
    [kind |-> kind, fence |-> fence, body |-> body, value |-> value]

ReturnedNone == Answer("None", "none", "garbage", JNull)
EmptyString == Answer("empty", "none", "garbage", JNull)
Prose == Answer("text", "none", "garbage", JNull)

RecoAnswers ==
    { Answer("text", "none", "json", v) : v \in JsonValues }
    \cup { Answer("text", f, "json", JConform) : f \in {"bare", "json", "other"} }
    \cup { Answer("text", "json", "json", JList), Answer("text", "json", "garbage", JNull) }

GenerationSteps == <<"grade", "sounds", "recommendations", "email">>
StepSet == {GenerationSteps[i] : i \in 1..Len(GenerationSteps)}

\* call_groq: the values it can return; without a client it returns None at line 68
call_groq(s, key) ==
    IF ~key THEN {ReturnedNone}
    ELSE {ReturnedNone, EmptyString, Prose}
         \cup (IF s = "recommendations" THEN RecoAnswers ELSE {})

\* "if result" / "if not result"
NonEmpty(result) == result.kind = "text"

\* lines 326-333: json.loads of the text between the fences raises JSONDecodeError
JsonDecodeError(result) == result.body = "garbage" \/ result.fence = "other"

\* f"{x:.1f}" raises TypeError when x is None
FormatRaises(x) == x = NaN

\* generate_grade_interpretation: building the prompt (lines 129-165) raises
GradePromptRaises(bundle) ==
    \/ FormatRaises(bundle.global.db_mean)
    \/ FormatRaises(bundle.day_night.jour.mean)
    \/ FormatRaises(bundle.day_night.nuit.mean)

PromptRaises(s, bundle) == s = "grade" /\ GradePromptRaises(bundle)

\* The texts: where they come from, and the values the fallback template fills in
Text(source, note, detail) == [source |-> source, note |-> note, detail |-> detail]
NoText == Text("none", "-", "-")
LlmText == Text("llm", "-", "-")

generate_grade_interpretation(bundle, result) ==
    LET note == bundle.global.note_globale
        confort == IF note \in {"A", "B", "C"} THEN "correct"
                   ELSE IF note = "D" THEN "moyen" ELSE "insuffisant"
    IN  IF ~NonEmpty(result) THEN Text("fallback", note, confort) ELSE LlmText

generate_sounds_analysis(bundle, result) ==
    LET top_sounds == bundle.sounds.top_5
        main_sound == IF top_sounds # <<>> THEN top_sounds[1].label ELSE "circulation"
    IN  IF ~NonEmpty(result) THEN Text("fallback", "-", main_sound) ELSE LlmText

generate_recommendations(bundle, result) ==
    IF NonEmpty(result) /\ ~JsonDecodeError(result) THEN result.value
    ELSE get_default_recommendations(bundle.global.note_globale, bundle.sounds.families_pct)

generate_summary_email(bundle, cost_range, result) ==
    LET cost_line == IF cost_range.max > 0 THEN "cost_line" ELSE "-"
    IN  IF ~NonEmpty(result) THEN Text("fallback", bundle.global.note_globale, cost_line)
        ELSE LlmText

(***************************************************************************)
(* The loader and the aggregator as a state machine                        *)
(***************************************************************************)
NoOutputs ==
    [grade_interpretation |-> NoText, sounds_analysis |-> NoText, recommendations |-> JNull,
     cost_range |-> [min |-> 0, max |-> 0], summary_email |-> NoText]

\* the client files data/clients/ can hold, and the moments the clock can show
MaxClients == 2
MaxClock == 4

ClientSlots == 1..MaxClients

\* the place of a client file that was not written yet
NoClient ==
    [exists |-> FALSE, metadata |-> FALSE, statut |-> None,
     fichier_json_boitier |-> None, date_modification |-> 0]

\* no client was recorded and data/ holds no sensor file
NoClients ==
    [clock |-> 0, files |-> [s \in ClientSlots |-> NoClient], boitiers |-> {}]

\* no function of config.py is called on its own
NoCall == args = <<>> /\ ret = <<>>

InterpIdle ==
    /\ llm = [key |-> FALSE, result |-> ReturnedNone]
    /\ calls = [s \in StepSet |-> 0]
    /\ step = [s \in StepSet |-> <<"PENDING">>]
    /\ order = <<>>
    /\ out = NoOutputs

Init ==
    /\ pc = "start"
    /\ clients = NoClients
    /\ raw_data \in Files
    /\ validation_errors = <<>>
    /\ validation_warnings = <<>>
    /\ load_result = "none"
    /\ df = NoTable
    /\ analysis_result = "none"
    /\ analysis = NoBundle
    /\ events = <<>>
    /\ arg_min_consecutive = MinConsecutive
    /\ NoCall
    /\ InterpIdle

\* DataLoader.load: load_json, validate, to_dataframe
Load ==
    /\ pc = "start"
    /\ validation_errors' = ValidateErrors(raw_data)
    /\ validation_warnings' = ValidateWarnings(raw_data)
    /\ IF ~validate(raw_data)
       THEN /\ load_result' = "ValueError: validation"
            /\ df' = NoTable
            /\ pc' = "load_failed"
       ELSE IF ToDatetimeRaises(raw_data)
       THEN /\ load_result' = "ValueError: to_datetime"
            /\ df' = NoTable
            /\ pc' = "load_failed"
       ELSE /\ load_result' = "table"
            /\ df' = to_dataframe(raw_data)
            /\ pc' = "loaded"
    /\ UNCHANGED <<clients, raw_data, analysis_result, analysis, events, arg_min_consecutive,
                   callVars, interpVars>>

\* generate_full_analysis
Analyze ==
    /\ pc = "loaded"
    /\ IF HourlyRaises(df.rows)
       THEN /\ analysis_result' = "KeyError"
            /\ analysis' = NoBundle
            /\ pc' = "analysis_failed"
       ELSE /\ analysis_result' = "bundle"
            /\ analysis' = Bundle(df.rows)
            /\ pc' = "analyzed"
    /\ df' = TableAfterFamily(df)
    /\ UNCHANGED <<clients, loaderVars, events, arg_min_consecutive, callVars, interpVars>>

Next == Load \/ Analyze

Spec == Init /\ [][Next]_vars

\* generate_full_analysis called a second time on the table the first call left;
\* ret holds what the second call returns
AnalyzeAgain ==
    /\ pc = "analyzed"
    /\ ret' = << IF HourlyRaises(df.rows) THEN NoBundle ELSE Bundle(df.rows) >>
    /\ df' = TableAfterFamily(df)
    /\ pc' = "analyzed_twice"
    /\ UNCHANGED <<clients, loaderVars, analysis_result, analysis, events, arg_min_consecutive,
                   args, interpVars>>

TwiceNext == Load \/ Analyze \/ AnalyzeAgain

TwiceSpec == Init /\ [][TwiceNext]_vars

(***************************************************************************)
(* generate_all_interpretations as a state machine.  Each generation step  *)
(* is two actions: Call builds the prompt and calls call_groq, Finish is   *)
(* the rest of the function (parse or fallback, return).  step[s] is the   *)
(* trail of statuses the step went through.                                *)
(***************************************************************************)
Last(t) == t[Len(t)]

\* Files whose table the aggregator turns into a bundle
InterpPool ==
    GoodSegments \cup {Seg(RequiredSet, {}, GoodTs(8), 1600, "G", <<"Vehicle">>, <<43>>, NaN)}

InterpFiles ==
    { f \in UNION { [1..n -> InterpPool] : n \in 1..MaxInterpSegs } :
        ~HourlyRaises(to_dataframe(f).rows) }

InterpInit ==
    /\ pc = "grade"
    /\ clients = NoClients
    /\ raw_data \in InterpFiles
    /\ validation_errors = <<>>
    /\ validation_warnings = ValidateWarnings(raw_data)
    /\ load_result = "table"
    /\ df = to_dataframe(raw_data)
    /\ analysis_result = "bundle"
    /\ analysis = Bundle(df.rows)
    /\ events = <<>>
    /\ arg_min_consecutive = MinConsecutive
    /\ NoCall
    /\ llm \in [key : BOOLEAN, result : {ReturnedNone}]
    /\ calls = [s \in StepSet |-> 0]
    /\ step = [s \in StepSet |-> <<"PENDING">>]
    /\ order = <<>>
    /\ out = NoOutputs

AfterStep(s) ==
    CASE s = "grade" -> "sounds"
      [] s = "sounds" -> "recommendations"
      [] s = "recommendations" -> "cost"
      [] s = "email" -> "return"

\* The value the step returns, from the bundle, the outputs so far and call_groq's result
StepOutput(s, result) ==
    CASE s = "grade" ->
            [out EXCEPT !.grade_interpretation = generate_grade_interpretation(analysis, result)]
      [] s = "sounds" ->
            [out EXCEPT !.sounds_analysis = generate_sounds_analysis(analysis, result)]
      [] s = "recommendations" ->
            [out EXCEPT !.recommendations = generate_recommendations(analysis, result)]
      [] s = "email" ->
            [out EXCEPT !.summary_email =
                 generate_summary_email(analysis, out.cost_range, result)]

\* Whether the step keeps the answer: a non-empty text, which for the
\* recommendations json.loads accepts
Parses(s, result) ==
    NonEmpty(result) /\ (s = "recommendations" => ~JsonDecodeError(result))

\* The step is entered: its prompt is built, and call_groq is called once
Call(s) ==
    /\ pc = s
    /\ Last(step[s]) = "PENDING"
    /\ order' = Append(order, s)
    /\ IF PromptRaises(s, analysis)
       THEN /\ pc' = "raised"
            /\ UNCHANGED <<llm, calls, step>>
       ELSE /\ \E result \in call_groq(s, llm.key) :
                 /\ llm' = [llm EXCEPT !.result = result]
                 /\ step' = [step EXCEPT ![s] = Append(@,
                                IF result.kind = "None" THEN "EXTERNAL_CALL_FAIL"
                                ELSE "EXTERNAL_CALL_OK")]
            /\ calls' = [calls EXCEPT ![s] = @ + (IF llm.key THEN 1 ELSE 0)]
            /\ pc' = pc
    /\ UNCHANGED <<clients, loaderVars, tableVars, events, arg_min_consecutive, callVars, out>>

\* The step ends: the answer is kept, or the fallback template is filled
Finish(s) ==
    /\ pc = s
    /\ Last(step[s]) \in {"EXTERNAL_CALL_OK", "EXTERNAL_CALL_FAIL"}
    /\ step' = [step EXCEPT ![s] =
                   IF Parses(s, llm.result) THEN @ \o <<"PARSE_OK", "DONE">>
                   ELSE IF Last(@) = "EXTERNAL_CALL_OK"
                   THEN @ \o <<"PARSE_FAIL", "FALLBACK", "DONE">>
                   ELSE @ \o <<"FALLBACK", "DONE">>]
    /\ out' = StepOutput(s, llm.result)
    /\ pc' = AfterStep(s)
    /\ UNCHANGED <<clients, loaderVars, tableVars, events, arg_min_consecutive, callVars, llm, calls, order>>

\* cost_range = calculate_total_costs(recommendations)
Cost ==
    /\ pc = "cost"
    /\ order' = Append(order, "cost")
    /\ IF TotalCostsRaises(out.recommendations)
       THEN /\ pc' = "raised"
            /\ out' = out
       ELSE /\ pc' = "email"
            /\ out' = [out EXCEPT !.cost_range = calculate_total_costs(out.recommendations)]
    /\ UNCHANGED <<clients, loaderVars, tableVars, events, arg_min_consecutive, callVars, llm, calls, step>>

\* the five outputs are returned
Return ==
    /\ pc = "return"
    /\ pc' = "returned"
    /\ UNCHANGED <<clients, loaderVars, tableVars, events, arg_min_consecutive, callVars, interpVars>>

InterpNext == (\E s \in StepSet : Call(s) \/ Finish(s)) \/ Cost \/ Return

InterpSpec == InterpInit /\ [][InterpNext]_vars

(***************************************************************************)
(* identify_sound_events on its own, on tables of up to MaxRows rows       *)
(***************************************************************************)
EventPool ==
    { Seg(RequiredSet, {}, GoodTs(8), 500, "D", <<"Vehicle">>, <<43>>, NaN),
      Seg(RequiredSet, {}, GoodTs(9), 620, "E", <<"Vehicle">>, <<50>>, NaN),
      Seg(RequiredSet, {}, GoodTs(8), 400, "C", <<"Music">>, <<40>>, NaN),
      Seg(RequiredSet, {}, GoodTs(8), 450, "C", <<>>, <<>>, NaN) }

EventInit ==
    /\ pc = "events"
    /\ clients = NoClients
    /\ raw_data \in UNION { [1..n -> EventPool] : n \in 1..MaxRows }
    /\ validation_errors = <<>>
    /\ validation_warnings = <<>>
    /\ load_result = "table"
    /\ df = to_dataframe(raw_data)
    /\ analysis_result = "none"
    /\ analysis = NoBundle
    /\ events = <<>>
    /\ arg_min_consecutive \in 0..MaxThreshold
    /\ NoCall
    /\ InterpIdle

IdentifyEvents ==
    /\ pc = "events"
    /\ events' = identify_sound_events(df.rows, arg_min_consecutive)
    /\ pc' = "events_done"
    /\ UNCHANGED <<clients, loaderVars, tableVars, arg_min_consecutive, callVars, interpVars>>

EventNext == IdentifyEvents

EventSpec == EventInit /\ [][EventNext]_vars

(***************************************************************************)
(* identify_sound_events on tables with rows that have no label: up to      *)
(* MaxGapRows rows labelled Vehicle, null or the empty string.              *)
(***************************************************************************)
GapPool ==
    { Seg(RequiredSet, {}, GoodTs(8), 500, "D", <<"Vehicle">>, <<43>>, NaN),
      \* top_5_labels is empty: the primary label is null
      Seg(RequiredSet, {}, GoodTs(8), 450, "C", <<>>, <<>>, NaN),
      \* the first of top_5_labels is the empty string
      Seg(RequiredSet, {}, GoodTs(8), 450, "C", <<"">>, <<40>>, NaN) }

GapInit ==
    /\ pc = "events"
    /\ clients = NoClients
    /\ raw_data \in UNION { [1..n -> GapPool] : n \in 1..MaxGapRows }
    /\ validation_errors = <<>>
    /\ validation_warnings = <<>>
    /\ load_result = "table"
    /\ df = to_dataframe(raw_data)
    /\ analysis_result = "none"
    /\ analysis = NoBundle
    /\ events = <<>>
    /\ arg_min_consecutive \in 1..MaxThreshold
    /\ NoCall
    /\ InterpIdle

GapNext == IdentifyEvents

GapSpec == GapInit /\ [][GapNext]_vars

(***************************************************************************)
(* generate_full_analysis on long tables: up to MaxRuns runs of rows, the   *)
(* labels Vehicle and Music in turn.                                        *)
(***************************************************************************)
\* the rows of the j-th run: 2 rows for every short_every-th run, else 3 or 4
RunLength(j, short_every) ==
    IF short_every > 0 /\ j % short_every = 0 THEN 2
    ELSE IF j % 5 = 0 THEN 4 ELSE 3

RunSegment(j, first_label) ==
    LET label == IF j % 2 = 1 THEN first_label
                 ELSE IF first_label = "Vehicle" THEN "Music" ELSE "Vehicle"
    IN  Seg(RequiredSet, {}, GoodTs((j \div 3) % 24), 300 + 10 * (j % 7),
            "C", <<label>>, <<40 + (j % 3)>>, NaN)

LongFile(n, short_every, first_label) ==
    Concat([j \in 1..n |-> [i \in 1..RunLength(j, short_every) |-> RunSegment(j, first_label)]])

LongFiles ==
    { LongFile(n, short_every, first_label) :
        n \in 1..MaxRuns, short_every \in {0, 4, 9}, first_label \in {"Vehicle", "Music"} }

LongInit ==
    /\ pc = "loaded"
    /\ clients = NoClients
    /\ raw_data \in LongFiles
    /\ validation_errors = <<>>
    /\ validation_warnings = <<>>
    /\ load_result = "table"
    /\ df = to_dataframe(raw_data)
    /\ analysis_result = "none"
    /\ analysis = NoBundle
    /\ events = <<>>
    /\ arg_min_consecutive = MinConsecutive
    /\ NoCall
    /\ InterpIdle

LongNext == Analyze

LongSpec == LongInit /\ [][LongNext]_vars

(***************************************************************************)
(* generate_full_analysis on tables of many labels: up to MaxLabels labels  *)
(* in a row of LabelOrder, one to three rows each, in the day, in the night *)
(* or both.                                                                 *)
(***************************************************************************)
\* eleven labels of NORMAL_SOUNDS, eleven of PROBLEMATIC_SOUNDS, one label of a
\* family that is in neither list, one label of no family
LabelOrder ==
    <<"Bird", "Bird vocalization, bird call, bird song", "Chirp, tweet", "Rain",
      "Raindrop", "Wind", "Rustling leaves", "Music", "Singing", "Speech",
      "Conversation", "Vehicle", "Car", "Truck", "Motorcycle",
      "Traffic noise, roadway noise", "Aircraft", "Jet engine", "Train", "Drill",
      "Jackhammer", "Hammer", "Engine", "Silence">>

\* the rows of the j-th label: 1 + ((j - 1) mod every) of them
LabelRows(j, offset, every, period) ==
    LET label == LabelOrder[((offset + j - 1) % Len(LabelOrder)) + 1]
        night == period = "nuit" \/ (period = "both" /\ j % 2 = 0)
    IN  [i \in 1..(1 + ((j - 1) % every)) |->
            Seg(RequiredSet, {}, GoodTs(IF night THEN 23 ELSE 8), 300 + 10 * (j % 7),
                "C", <<label>>, <<40 + (j % 3)>>, NaN)]

LabelFiles ==
    { Concat([j \in 1..n |-> LabelRows(j, offset, every, period)]) :
        n \in 1..MaxLabels, offset \in 0..(Len(LabelOrder) - 1), every \in 1..3,
        period \in {"jour", "nuit", "both"} }

LabelInit ==
    /\ pc = "loaded"
    /\ clients = NoClients
    /\ raw_data \in LabelFiles
    /\ validation_errors = <<>>
    /\ validation_warnings = <<>>
    /\ load_result = "table"
    /\ df = to_dataframe(raw_data)
    /\ analysis_result = "none"
    /\ analysis = NoBundle
    /\ events = <<>>
    /\ arg_min_consecutive = MinConsecutive
    /\ NoCall
    /\ InterpIdle

LabelNext == Analyze

LabelSpec == LabelInit /\ [][LabelNext]_vars

(***************************************************************************)
(* generate_full_analysis on tables whose levels are next to the bound of   *)
(* band C, 45.0 dB: up to MaxLevelRows segments of the day.                 *)
(***************************************************************************)
LevelPool == {449, 450, 451, 600}

LevelSegment(db, label) == Seg(RequiredSet, {}, GoodTs(8), db, "C", <<label>>, <<43>>, NaN)

\* a mean that is half-way between two tenths of a dB, where the binary value
\* of the quotient would decide which way round() goes
HalfWay(levels) == Len(levels) > 0 /\ (2 * SumSeq(levels)) % (2 * Len(levels)) = Len(levels)

\* the files none of whose means (of the table, of a label) is half-way
LevelFiles ==
    { f \in UNION { [1..n -> {LevelSegment(db, label) :
                                 db \in LevelPool, label \in {"Vehicle", "Music"}}] :
                    n \in 1..MaxLevelRows } :
        /\ ~HalfWay([i \in 1..Len(f) |-> f[i].LAeq_segment_dB])
        /\ \A label \in {"Vehicle", "Music"} :
               ~HalfWay(Column(SelectSeq(f, LAMBDA s : s.top_5_labels = <<label>>),
                               "LAeq_segment_dB")) }

LevelInit ==
    /\ pc = "loaded"
    /\ clients = NoClients
    /\ raw_data \in LevelFiles
    /\ validation_errors = <<>>
    /\ validation_warnings = <<>>
    /\ load_result = "table"
    /\ df = to_dataframe(raw_data)
    /\ analysis_result = "none"
    /\ analysis = NoBundle
    /\ events = <<>>
    /\ arg_min_consecutive = MinConsecutive
    /\ NoCall
    /\ InterpIdle

LevelNext == Analyze

LevelSpec == LevelInit /\ [][LevelNext]_vars

(***************************************************************************)
(* generate_full_analysis on tables that differ by their stored ratings:    *)
(* every segment is at 50.0 dB (band D) and carries any of the seven        *)
(* letters or the unknown rating "Z"; one file per multiset of ratings.     *)
(***************************************************************************)
RatingPool == RatingOrder \o <<"Z">>

RatingSegment(r) ==
    Seg(RequiredSet, {}, GoodTs(8), 500, RatingPool[r], <<"Vehicle">>, <<43>>, NaN)

RatingFiles ==
    UNION { { [i \in 1..n |-> RatingSegment(f[i])] :
                f \in { g \in [1..n -> 1..Len(RatingPool)] :
                           \A i \in 1..(n - 1) : g[i] <= g[i + 1] } } :
            n \in 1..MaxRatingRows }

RatingInit ==
    /\ pc = "loaded"
    /\ clients = NoClients
    /\ raw_data \in RatingFiles
    /\ validation_errors = <<>>
    /\ validation_warnings = ValidateWarnings(raw_data)
    /\ load_result = "table"
    /\ df = to_dataframe(raw_data)
    /\ analysis_result = "none"
    /\ analysis = NoBundle
    /\ events = <<>>
    /\ arg_min_consecutive = MinConsecutive
    /\ NoCall
    /\ InterpIdle

RatingNext == Analyze

RatingSpec == RatingInit /\ [][RatingNext]_vars

(***************************************************************************)
(* The loader and the aggregator on files that differ by the hours of      *)
(* their timestamps, the hours around 7h and 22h among them.               *)
(***************************************************************************)
HourPool == {0, 6, 7, 12, 21, 22, 23}

HourSegment(h) == Seg(RequiredSet, {}, GoodTs(h), 500, "D", <<"Vehicle">>, <<43>>, NaN)

HourFiles == UNION { [1..n -> {HourSegment(h) : h \in HourPool}] : n \in 1..MaxHourRows }

HourInit ==
    /\ pc = "start"
    /\ clients = NoClients
    /\ raw_data \in HourFiles
    /\ validation_errors = <<>>
    /\ validation_warnings = <<>>
    /\ load_result = "none"
    /\ df = NoTable
    /\ analysis_result = "none"
    /\ analysis = NoBundle
    /\ events = <<>>
    /\ arg_min_consecutive = MinConsecutive
    /\ NoCall
    /\ InterpIdle

HourSpec == HourInit /\ [][Next]_vars

(***************************************************************************)
(* get_note_from_db called on its own, on two values at a time.  The       *)
(* values, in tenths of a dB: every multiple of 5 dB from -5 dB to         *)
(* MaxDbValue, and 0.1 dB below and above each bound of DPS_SCALE.         *)
(***************************************************************************)
DbValues ==
    { v \in -50..MaxDbValue : v % 50 = 0 }
    \cup UNION { {DPS_SCALE[i].max_db * 10 - 1, DPS_SCALE[i].max_db * 10 + 1} :
                 i \in 1..Len(DPS_SCALE) }

NoteInit ==
    /\ pc = "call"
    /\ clients = NoClients
    /\ raw_data = <<>>
    /\ validation_errors = <<>>
    /\ validation_warnings = <<>>
    /\ load_result = "none"
    /\ df = NoTable
    /\ analysis_result = "none"
    /\ analysis = NoBundle
    /\ events = <<>>
    /\ arg_min_consecutive = MinConsecutive
    /\ args \in DbValues \X DbValues
    /\ ret = <<>>
    /\ InterpIdle

GetNotes ==
    /\ pc = "call"
    /\ ret' = <<get_note_from_db(args[1], 1), get_note_from_db(args[2], 1)>>
    /\ pc' = "called"
    /\ UNCHANGED <<clients, loaderVars, tableVars, events, arg_min_consecutive, args, interpVars>>

NoteNext == GetNotes

NoteSpec == NoteInit /\ [][NoteNext]_vars

(***************************************************************************)
(* get_sound_family called on its own: on every label of SOUND_FAMILIES,   *)
(* and on labels of no list (another case, a part of a label, a label with *)
(* a space more, the name of a family, the empty string, None).            *)
(***************************************************************************)
ListedLabels == UNION {SOUND_FAMILIES[i].labels : i \in 1..Len(SOUND_FAMILIES)}

UnlistedLabels ==
    {"vehicle", "VEHICLE", "speech", "Vehicle ", " Vehicle", "Vehic", "Vehicles",
     "Traffic noise", "roadway noise", "Unknown sound", "circulation", "autres", "", None}

FamilyInit ==
    /\ pc = "call"
    /\ clients = NoClients
    /\ raw_data = <<>>
    /\ validation_errors = <<>>
    /\ validation_warnings = <<>>
    /\ load_result = "none"
    /\ df = NoTable
    /\ analysis_result = "none"
    /\ analysis = NoBundle
    /\ events = <<>>
    /\ arg_min_consecutive = MinConsecutive
    /\ args \in {<<label>> : label \in ListedLabels \cup UnlistedLabels}
    /\ ret = <<>>
    /\ InterpIdle

GetFamily ==
    /\ pc = "call"
    /\ ret' = <<get_sound_family(args[1])>>
    /\ pc' = "called"
    /\ UNCHANGED <<clients, loaderVars, tableVars, events, arg_min_consecutive, args, interpVars>>

FamilyNext == GetFamily

FamilySpec == FamilyInit /\ [][FamilyNext]_vars

(***************************************************************************)
(* get_default_recommendations called on its own: on every letter, and on  *)
(* family-percentage maps with or without circulation and voisinage, at,   *)
(* below and above the thresholds 30 and 20 (tenths of a percent).         *)
(***************************************************************************)
Absent == -1

FamilyMap(circulation, voisinage) ==
    [f \in (IF circulation = Absent THEN {} ELSE {"circulation"})
            \cup (IF voisinage = Absent THEN {} ELSE {"voisinage"}) \cup {"musique"} |->
        IF f = "circulation" THEN circulation ELSE IF f = "voisinage" THEN voisinage ELSE 0]

FamilyMaps ==
    { FamilyMap(c, v) : c \in {Absent, 0, 300, 301, 1000}, v \in {Absent, 0, 200, 201, 1000} }

DefaultsInit ==
    /\ pc = "call"
    /\ clients = NoClients
    /\ raw_data = <<>>
    /\ validation_errors = <<>>
    /\ validation_warnings = <<>>
    /\ load_result = "none"
    /\ df = NoTable
    /\ analysis_result = "none"
    /\ analysis = NoBundle
    /\ events = <<>>
    /\ arg_min_consecutive = MinConsecutive
    /\ args \in VALID_RATINGS \X FamilyMaps
    /\ ret = <<>>
    /\ InterpIdle

GetDefaults ==
    /\ pc = "call"
    /\ ret' = <<get_default_recommendations(args[1], args[2])>>
    /\ pc' = "called"
    /\ UNCHANGED <<clients, loaderVars, tableVars, events, arg_min_consecutive, args, interpVars>>

DefaultsNext == GetDefaults

DefaultsSpec == DefaultsInit /\ [][DefaultsNext]_vars

(***************************************************************************)
(* Properties of the interpretation client (InterpSpec)                    *)
(***************************************************************************)
\* C1: generate_all_interpretations never raises, whatever the bundle (empty
\* day or night period included) and whatever each external call returns.
C1_InterpretNeverRaises == pc # "raised"

CategoryNames(reco) == {reco.cats[i].name : i \in 1..Len(reco.cats)}

\* the answer is a JSON object with the six categories
ConformsToSchema(result) ==
    /\ NonEmpty(result)
    /\ ~JsonDecodeError(result)
    /\ result.value.jtype = "object"
    /\ CategoryNames(result.value) = Categories

\* C2: when the answer to the recommendations call does not conform to the schema
\* (not JSON, truncated, or JSON that is not an object with the six categories),
\* generate_recommendations returns exactly get_default_recommendations(note_globale,
\* families_pct); the tree returned always has the six categories.
C2_FallbackOnNonConforming ==
    pc = "cost" =>
        /\ ~ConformsToSchema(llm.result) =>
               out.recommendations =
                   get_default_recommendations(analysis.global.note_globale,
                                               analysis.sounds.families_pct)
        /\ out.recommendations.jtype = "object"
        /\ CategoryNames(out.recommendations) = Categories

Trails ==
    { <<"PENDING">>,
      <<"PENDING", "EXTERNAL_CALL_OK">>,
      <<"PENDING", "EXTERNAL_CALL_FAIL">>,
      <<"PENDING", "EXTERNAL_CALL_OK", "PARSE_OK", "DONE">>,
      <<"PENDING", "EXTERNAL_CALL_OK", "PARSE_FAIL", "FALLBACK", "DONE">>,
      <<"PENDING", "EXTERNAL_CALL_FAIL", "FALLBACK", "DONE">> }

StepOrder == <<"grade", "sounds", "recommendations", "cost", "email">>

\* each step follows the state machine, with at most one external call
C3_SingleAttempt == \A s \in StepSet : step[s] \in Trails /\ calls[s] <= 1

\* the steps are entered in the fixed order
C3_FixedOrder == Len(order) <= Len(StepOrder) /\ order = SubSeq(StepOrder, 1, Len(order))

\* when the request has ended, every step has reached DONE
C3_AllDone == pc \in {"returned", "raised"} => \A s \in StepSet : Last(step[s]) = "DONE"

\* C3: each of the four generation steps follows PENDING -> call OK -> parse OK ->
\* DONE, or a fallback path to DONE, with at most one external call and no retry;
\* the steps run in the order grade, sounds, recommendations, cost, email; and
\* every step reaches DONE (the external calls return in every run of the model).
C3_StepMachine == C3_SingleAttempt /\ C3_FixedOrder /\ C3_AllDone

(***************************************************************************)
(* Properties of the loader and the aggregator (Spec)                      *)
(***************************************************************************)
HasRequired(segment) == RequiredSet \subseteq segment.keys

\* C4: load is all-or-nothing.  It returns a table only for a non-empty list
\* whose segments all have the six required fields; an empty list or a single
\* segment lacking a field makes it raise with no table; a returned table has
\* one row per segment.
C4_AllOrNothing ==
    pc # "start" =>
        /\ load_result = "table" =>
               /\ Len(raw_data) > 0
               /\ \A i \in 1..Len(raw_data) : HasRequired(raw_data[i])
               /\ Len(df.rows) = Len(raw_data)
        /\ (Len(raw_data) = 0 \/ \E i \in 1..Len(raw_data) : ~HasRequired(raw_data[i])) =>
               /\ load_result \notin {"table", "none"}
               /\ df = NoTable
        /\ load_result # "table" => df = NoTable

\* a file with a complete segment and a segment lacking a field was refused
C4_Witness ==
    /\ pc = "load_failed"
    /\ \E i, j \in 1..Len(raw_data) :
           /\ HasRequired(raw_data[i]) /\ raw_data[i].badtype = {} /\ raw_data[i].timestamp.fmt
           /\ ~HasRequired(raw_data[j])

\* every segment has the six fields with values of the expected types
WellTyped(data) ==
    /\ Len(data) > 0
    /\ \A i \in 1..Len(data) : HasRequired(data[i]) /\ data[i].badtype = {}

Warned(index, what) ==
    \E k \in 1..Len(validation_warnings) :
        validation_warnings[k].index = index /\ validation_warnings[k].what = what

\* C5: a timestamp string that does not match YYYY-MM-DD HH:MM:SS is not fatal:
\* for a non-empty file of well-typed complete segments, load records a warning
\* for it and returns the table.
C5_BadTimestampNotFatal ==
    (pc # "start" /\ WellTyped(raw_data)) =>
        \A i \in 1..Len(raw_data) :
            ~raw_data[i].timestamp.fmt =>
                /\ Warned(i - 1, "format timestamp invalide")
                /\ load_result = "table"

\* the four conditions of C6 on a segment, with the warning each one leaves
DbOutOfRange(segment) == segment.LAeq_segment_dB < 0 \/ segment.LAeq_segment_dB > 1500
UnknownRating(segment) == segment.LAeq_rating \notin VALID_RATINGS
SizeMismatch(segment) == Len(segment.top_5_labels) # Len(segment.top_5_probs)
AberrantLmin(segment) == "Lmin_dB" \in segment.keys /\ segment.Lmin_dB < -1000

\* C6: an LAeq_segment_dB outside [0,150], a rating outside A..G, lists of
\* different lengths and an Lmin_dB below -100 each leave a warning and no
\* error; in a file with no other defect validate returns true and load returns
\* a table that holds the segment.
C6_WarningsDoNotBlock ==
    pc # "start" =>
        /\ \A i \in 1..Len(raw_data) :
               (HasRequired(raw_data[i]) /\ raw_data[i].badtype = {}) =>
                   /\ DbOutOfRange(raw_data[i]) => Warned(i - 1, "LAeq_segment_dB hors limites")
                   /\ UnknownRating(raw_data[i]) => Warned(i - 1, "LAeq_rating invalide")
                   /\ SizeMismatch(raw_data[i]) => Warned(i - 1, "pas la meme taille")
                   /\ AberrantLmin(raw_data[i]) => Warned(i - 1, "Lmin_dB aberrant")
                   /\ \A k \in 1..Len(validation_errors) : validation_errors[k].index # i - 1
        /\ (WellTyped(raw_data) /\ \A i \in 1..Len(raw_data) : raw_data[i].timestamp.fmt) =>
               /\ validation_errors = <<>>
               /\ load_result = "table"
               /\ Len(df.rows) = Len(raw_data)
               /\ \A i \in 1..Len(raw_data) :
                      /\ df.rows[i].LAeq_segment_dB = raw_data[i].LAeq_segment_dB
                      /\ df.rows[i].LAeq_rating = raw_data[i].LAeq_rating

\* a table was returned for a file with a segment that has the four conditions
C6_Witness ==
    /\ load_result = "table"
    /\ \E i \in 1..Len(raw_data) :
           /\ DbOutOfRange(raw_data[i]) /\ UnknownRating(raw_data[i])
           /\ SizeMismatch(raw_data[i]) /\ AberrantLmin(raw_data[i])
           /\ df.rows[i].LAeq_rating = "Z"

\* C7: in the table load returns, Lmin_dB is null in the rows whose segment has
\* Lmin_dB < -100 and is the segment's value in the others; every row is kept and
\* every other input field of every row is the segment's.
C7_OnlyAberrantLminNulled ==
    load_result = "table" =>
        /\ Len(df.rows) = Len(raw_data)
        /\ \A i \in 1..Len(raw_data) :
               /\ AberrantLmin(raw_data[i]) => df.rows[i].Lmin_dB = NaN
               /\ ("Lmin_dB" \in raw_data[i].keys /\ raw_data[i].Lmin_dB >= -1000) =>
                      df.rows[i].Lmin_dB = raw_data[i].Lmin_dB
               /\ df.rows[i].timestamp = raw_data[i].timestamp
               /\ df.rows[i].LAeq_segment_dB = raw_data[i].LAeq_segment_dB
               /\ df.rows[i].LAeq_rating = raw_data[i].LAeq_rating
               /\ df.rows[i].top_5_labels = raw_data[i].top_5_labels
               /\ df.rows[i].top_5_probs = raw_data[i].top_5_probs

\* a table with a nulled Lmin_dB beside rows that kept theirs, -100 included
C7_Witness ==
    /\ load_result = "table"
    /\ \E i, j, k \in 1..Len(raw_data) :
           /\ raw_data[i].Lmin_dB = -1500 /\ df.rows[i].Lmin_dB = NaN
           /\ df.rows[j].Lmin_dB = -1000
           /\ df.rows[k].Lmin_dB = -580

\* C8: generate_full_analysis produces a bundle for every table load returns,
\* also with segments whose top_5_labels is empty, with a single period and with
\* ratings outside A..G.
C8_AnalysisTotal == pc \in {"analyzed", "analysis_failed"} => analysis_result = "bundle"

\* C9: generate_full_analysis leaves its input table as it was: same rows in
\* the same order, same columns (no "family" column), same values.
C9_InputNotMutated == [][pc = "loaded" => df' = df]_vars

\* a bundle with its family distribution was computed from a table of two rows or more
C9_Witness ==
    /\ pc = "analyzed"
    /\ Len(df.rows) >= 2
    /\ DOMAIN analysis.sounds.families # {}
    /\ analysis.sounds.families_jour # <<>>
    /\ "family" \notin df.columns

(***************************************************************************)
(* Properties of identify_sound_events (EventSpec)                         *)
(***************************************************************************)
\* C10 as stated: no two consecutive events of the list have the same label.
C10_NoEqualNeighbours ==
    pc = "events_done" =>
        \A k \in 1..(Len(events) - 1) : events[k].label # events[k + 1].label

\* C10, amended: two consecutive events of the list have different labels, or
\* at least one row whose primary label is another one (a run too short to be
\* an event, or rows with no label) lies between them in the table.
C10_EqualNeighboursAreSeparated ==
    pc = "events_done" =>
        \A k \in 1..(Len(events) - 1) :
            events[k].label = events[k + 1].label =>
                \E j \in (events[k].last + 1)..(events[k + 1].first - 1) :
                    df.rows[j].top_label # events[k].label

\* two consecutive events with the same label were returned
C10_Witness ==
    /\ pc = "events_done"
    /\ \E k \in 1..(Len(events) - 1) : events[k].label = events[k + 1].label

\* C11: every event returned by identify_sound_events has duration_segments >=
\* min_consecutive and duration_seconds = 9 * duration_segments.
C11_EventDurations ==
    pc = "events_done" =>
        \A k \in 1..Len(events) :
            /\ events[k].duration_segments >= arg_min_consecutive
            /\ events[k].duration_seconds = 9 * events[k].duration_segments

\* with the default threshold, an event of exactly 3 rows and a longer one were returned
C11_Witness ==
    /\ pc = "events_done"
    /\ arg_min_consecutive = MinConsecutive
    /\ \E k, l \in 1..Len(events) :
           /\ events[k].duration_segments = 3 /\ events[k].duration_seconds = 27
           /\ events[l].duration_segments = 4 /\ events[l].duration_seconds = 36

\* the maximal runs of consecutive rows with the same primary label, as <<first, last>>
MaximalRuns(rows) ==
    { r \in (1..Len(rows)) \X (1..Len(rows)) :
        /\ r[1] <= r[2]
        /\ \A i \in r[1]..r[2] : rows[i].top_label = rows[r[1]].top_label
        /\ (r[1] = 1 \/ rows[r[1] - 1].top_label # rows[r[1]].top_label)
        /\ (r[2] = Len(rows) \/ rows[r[2] + 1].top_label # rows[r[2]].top_label) }

LongRuns(rows, m) == { r \in MaximalRuns(rows) : r[2] - r[1] + 1 >= m }

LabelledLongRuns(rows, m) == { r \in LongRuns(rows, m) : Truthy(rows[r[1]].top_label) }

\* the events are the runs of the set R, one event per run, in order of run end,
\* each with the label, the bounds, the timestamps and the length of its run
EventsAre(R) ==
    /\ Len(events) = Cardinality(R)
    /\ \A k \in 1..Len(events) :
           /\ <<events[k].first, events[k].last>> \in R
           /\ events[k].label = df.rows[events[k].first].top_label
           /\ events[k].start_time = df.rows[events[k].first].timestamp
           /\ events[k].end_time = df.rows[events[k].last].timestamp
           /\ events[k].duration_segments = events[k].last - events[k].first + 1
    /\ \A k \in 1..(Len(events) - 1) : events[k].last < events[k + 1].last

\* C12 as stated: one event per maximal run of rows sharing the same primary
\* label (the null one included) whose length is >= min_consecutive.
C12_OneEventPerRun ==
    pc = "events_done" => EventsAre(LongRuns(df.rows, arg_min_consecutive))

\* C12, amended: identify_sound_events returns exactly one event per maximal run
\* of consecutive rows sharing the same non-null primary label whose length is
\* >= min_consecutive, in order of run end, the run that ends at the last row
\* included; start_time and end_time are the timestamps of the run's first and
\* last rows and duration_segments is the run's length.
C12_OneEventPerLabelledRun ==
    pc = "events_done" => EventsAre(LabelledLongRuns(df.rows, arg_min_consecutive))

\* five Vehicle rows then two Music rows, the threshold 3: one Vehicle event of
\* five rows, whose last row has another timestamp than its first
C12_Witness ==
    /\ pc = "events_done"
    /\ arg_min_consecutive = 3
    /\ Len(df.rows) = 7
    /\ \A i \in 1..5 : df.rows[i].top_label = "Vehicle"
    /\ \A i \in 6..7 : df.rows[i].top_label = "Music"
    /\ Len(events) = 1
    /\ events[1].label = "Vehicle" /\ events[1].duration_segments = 5
    /\ events[1].start_time # events[1].end_time

(***************************************************************************)
(* Properties of the bundle's event list (LongSpec)                        *)
(***************************************************************************)
\* the rows that end a maximal run of at least m rows with the same non-null label
RunEnds(rows, m) ==
    { e \in 1..Len(rows) :
        /\ Truthy(rows[e].top_label)
        /\ (e = Len(rows) \/ rows[e + 1].top_label # rows[e].top_label)
        /\ e >= m
        /\ \A i \in (e - m + 1)..e : rows[i].top_label = rows[e].top_label }

\* C13: the bundle's event list has at most 50 entries and is the first 50 of
\* the detected events in chronological order of run end: its k-th entry is the
\* event of the k-th run to end, whatever the durations and the levels.
C13_FirstFiftyInFlushOrder ==
    pc = "analyzed" =>
        LET ends == RunEnds(df.rows, MinConsecutive)
        IN  /\ Len(analysis.events) <= MaxEvents
            /\ Len(analysis.events) = Min(MaxEvents, Cardinality(ends))
            /\ \A k \in 1..Len(analysis.events) :
                   /\ analysis.events[k].last \in ends
                   /\ Cardinality({e \in ends : e < analysis.events[k].last}) = k - 1
                   /\ analysis.events[k].label = df.rows[analysis.events[k].last].top_label

\* more than 50 events were detected, of different durations and levels, the
\* longest and the loudest not among the first
C13_Witness ==
    /\ pc = "analyzed"
    /\ Cardinality(RunEnds(df.rows, MinConsecutive)) > MaxEvents
    /\ Len(analysis.events) = MaxEvents
    /\ analysis.events[1].duration_segments < analysis.events[5].duration_segments
    /\ analysis.events[1].avg_db < analysis.events[6].avg_db

(***************************************************************************)
(* Properties of the grade distribution (RatingSpec)                       *)
(***************************************************************************)
\* the sum of the seven percentages, in tenths of a percent
PercentageSum(percentages) == SumSeq([i \in 1..Len(RatingOrder) |-> percentages[RatingOrder[i]]])

Distance(a, b) == IF a >= b THEN a - b ELSE b - a

\* C14 as stated: for any non-empty table the seven percentages sum to 100
\* within 0.1.
C14_SumWithinOneTenth ==
    pc = "analyzed" => Distance(PercentageSum(analysis.ratings.percentages), 1000) <= 1

\* C14, amended: for a table with at least one segment rated A..G the seven
\* percentages sum to 100 within 0.3 (seven roundings of at most 0.05 each, the
\* sum being a whole number of tenths); for a table in which no segment is
\* rated A..G the seven percentages are all 0.
C14_SumWithinThreeTenths ==
    pc = "analyzed" =>
        IF \E i \in 1..Len(df.rows) : df.rows[i].LAeq_rating \in VALID_RATINGS
        THEN Distance(PercentageSum(analysis.ratings.percentages), 1000) <= 3
        ELSE \A k \in VALID_RATINGS : analysis.ratings.percentages[k] = 0

\* six segments with six different letters: 16.7 six times, 100.2 in all
C14_Witness ==
    /\ pc = "analyzed"
    /\ Len(df.rows) = 6
    /\ \A i, j \in 1..6 : i # j => df.rows[i].LAeq_rating # df.rows[j].LAeq_rating
    /\ \A i \in 1..6 : df.rows[i].LAeq_rating \in VALID_RATINGS
    /\ PercentageSum(analysis.ratings.percentages) = 1002

\* C15: the grade distribution has exactly the seven keys A..G, and each value
\* is the number of segments whose stored LAeq_rating is that letter, 0 when
\* there is none, whatever the segments' levels.
C15_CountsOfStoredRatings ==
    pc = "analyzed" =>
        /\ DOMAIN analysis.ratings.distribution = {"A", "B", "C", "D", "E", "F", "G"}
        /\ \A k \in DOMAIN analysis.ratings.distribution :
               analysis.ratings.distribution[k] =
                   Cardinality({i \in 1..Len(df.rows) : df.rows[i].LAeq_rating = k})

\* segments at 50.0 dB (band D) stored as A and as Z: A is counted, D is 0
C15_Witness ==
    /\ pc = "analyzed"
    /\ \E i, j \in 1..Len(df.rows) :
           /\ df.rows[i].LAeq_rating = "A" /\ df.rows[j].LAeq_rating = "Z"
           /\ get_note_from_db(df.rows[i].LAeq_segment_dB, 1) = "D"
    /\ analysis.ratings.distribution["A"] = 2
    /\ analysis.ratings.distribution["D"] = 0

(***************************************************************************)
(* Properties of the day/night split (HourSpec)                            *)
(***************************************************************************)
\* C16: in every loaded table each segment has is_night true exactly when
\* hour >= 22 or hour < 7, and in calculate_day_night_stats the day count plus
\* the night count is the number of segments.
C16_NightAndDayPartition ==
    /\ load_result = "table" =>
           \A i \in 1..Len(df.rows) :
               /\ df.rows[i].hour = raw_data[i].timestamp.hour
               /\ df.rows[i].is_night <=> (df.rows[i].hour >= 22 \/ df.rows[i].hour < 7)
    /\ pc = "analyzed" =>
           /\ analysis.day_night.jour.count + analysis.day_night.nuit.count = Len(df.rows)
           /\ analysis.day_night.jour.count =
                  Cardinality({i \in 1..Len(df.rows) : df.rows[i].hour \in 7..21})
           /\ analysis.global.total_segments = Len(df.rows)

\* segments at 6h, 7h and 22h: one in the day, two in the night
C16_Witness ==
    /\ pc = "analyzed"
    /\ {df.rows[i].hour : i \in 1..Len(df.rows)} = {6, 7, 22}
    /\ analysis.day_night.jour.count = 1
    /\ analysis.day_night.nuit.count = 2

(***************************************************************************)
(* Properties of get_note_from_db (NoteSpec)                               *)
(***************************************************************************)
\* the place of a letter in A < B < C < D < E < F < G
LetterRank(note) == CHOOSE i \in 1..7 : <<"A", "B", "C", "D", "E", "F", "G">>[i] = note

\* C17: get_note_from_db is monotone: for v1 < v2 the letter of v1 is not
\* after the letter of v2 in A < B < ... < G.
C17_NoteMonotone ==
    (pc = "called" /\ args[1] < args[2]) => LetterRank(ret[1]) <= LetterRank(ret[2])

\* a value of band B and a larger one of band E were graded
C17_Witness ==
    /\ pc = "called"
    /\ args[1] < args[2]
    /\ ret = <<"B", "E">>

\* the letter the claim gives the value v (tenths of a dB)
BandOf(v) ==
    IF v <= 200 THEN "A" ELSE IF v <= 300 THEN "B" ELSE IF v <= 450 THEN "C"
    ELSE IF v <= 600 THEN "D" ELSE IF v <= 800 THEN "E" ELSE IF v <= 1000 THEN "F"
    ELSE "G"

\* C18: get_note_from_db returns the letter of the first band, scanning A..G
\* with the inclusive bounds 20, 30, 45, 60, 80, 100, 120, whose bound is >= the
\* value; G above 120; A for negative values; it always returns a letter.
C18_FirstBandInclusive ==
    pc = "called" =>
        /\ ret[1] = BandOf(args[1])
        /\ ret[2] = BandOf(args[2])
        /\ args[1] > 1200 => ret[1] = "G"
        /\ args[1] < 0 => ret[1] = "A"

\* a negative value, and a value above 120 dB, were graded
C18_Witness ==
    /\ pc = "called"
    /\ args = <<-50, 1250>>
    /\ ret = <<"A", "G">>

(***************************************************************************)
(* Properties of get_sound_family (FamilySpec)                             *)
(***************************************************************************)
\* the families whose list holds the label, by equality of strings
FamiliesListing(label) ==
    {SOUND_FAMILIES[i].family : i \in {k \in 1..Len(SOUND_FAMILIES) : label \in SOUND_FAMILIES[k].labels}}

\* C19: get_sound_family returns a family for every label, the null one
\* included: the one family whose list holds exactly that string, and the
\* catch-all family ("autres" in the code) for a label of no list.
C19_FamilyAlwaysDefined ==
    pc = "called" =>
        /\ ret[1] # None
        /\ ret[1] \in {SOUND_FAMILIES[i].family : i \in 1..Len(SOUND_FAMILIES)} \cup {"autres"}
        /\ FamiliesListing(args[1]) # {} => FamiliesListing(args[1]) = {ret[1]}
        /\ FamiliesListing(args[1]) = {} => ret[1] = "autres"

\* the null label was given the catch-all family
C19_Witness ==
    /\ pc = "called"
    /\ args = <<None>>
    /\ ret = <<"autres">>

(***************************************************************************)
(* Properties of get_default_recommendations (DefaultsSpec)                *)
(***************************************************************************)
\* C20: for every letter A..G and every family-percentage map,
\* get_default_recommendations returns exactly the six categories fenetre, mur,
\* porte, plafond, sol, aeration, each with a priorite among haute, moyenne,
\* basse and a non-empty list of solutions whose costs are numbers with
\* cout_min <= cout_max.
C20_DefaultTreeWellFormed ==
    pc = "called" =>
        LET reco == ret[1]
        IN  /\ reco.jtype = "object"
            /\ Len(reco.cats) = 6
            /\ {reco.cats[i].name : i \in 1..Len(reco.cats)} =
                   {"fenetre", "mur", "porte", "plafond", "sol", "aeration"}
            /\ \A i \in 1..Len(reco.cats) :
                   /\ reco.cats[i].priorite \in {"haute", "moyenne", "basse"}
                   /\ reco.cats[i].solutions_kind = "list"
                   /\ Len(reco.cats[i].solutions) >= 1
                   /\ \A k \in 1..Len(reco.cats[i].solutions) :
                          LET sol == reco.cats[i].solutions[k]
                          IN  /\ sol.numeric
                              /\ sol.cout_min # NaN /\ sol.cout_max # NaN
                              /\ sol.cout_min <= sol.cout_max

\* grade B with no voisinage and no circulation: the ceiling keeps one solution, at no cost
C20_Witness ==
    /\ pc = "called"
    /\ args[1] = "B"
    /\ "voisinage" \notin DOMAIN args[2]
    /\ \E i \in 1..Len(ret[1].cats) :
           /\ ret[1].cats[i].name = "plafond"
           /\ ret[1].cats[i].solutions = <<Sol(0, 0)>>

(***************************************************************************)
(* Properties of the cost aggregation (InterpSpec)                         *)
(***************************************************************************)
\* the costs of one category: the sum over its solutions, a null cost as 0
CategoryCost(cat, field) ==
    SumSeq([i \in 1..Len(cat.solutions) |->
               IF cat.solutions[i][field] = NaN THEN 0 ELSE cat.solutions[i][field]])

\* the sum over the categories of the tree
TreeCost(reco, field) ==
    SumSeq([i \in 1..Len(reco.cats) |-> CategoryCost(reco.cats[i], field)])

\* calculate_total_costs, when it returns, returns the two sums
C21_CostsAreSums ==
    pc \in {"email", "return", "returned"} =>
        /\ out.cost_range.min = TreeCost(out.recommendations, "cout_min")
        /\ out.cost_range.max = TreeCost(out.recommendations, "cout_max")

\* calculate_total_costs returns for every tree generate_recommendations returned
C21_NoFailureMode == \A i \in 1..Len(order) : order[i] = "cost" => pc # "raised"

\* C21: calculate_total_costs returns min = the sum of cout_min and max = the
\* sum of cout_max over every solution of every category, a missing or null
\* cost and a category without solutions counting as 0, and it has no failure
\* mode for any tree returned by generate_recommendations.
C21_TotalCosts == C21_CostsAreSums /\ C21_NoFailureMode

\* the tree of two categories with the costs 50-100 and 0-0 gives 50 and 100
C21_ExampleTree ==
    /\ pc = "email"
    /\ out.recommendations = JTwoCategories
    /\ out.cost_range = [min |-> 50, max |-> 100]

HourLabels(rows, h) ==
    LET at == SelectSeq([i \in 1..Len(rows) |-> i], LAMBDA i : rows[i].hour = h)
    IN  [k \in 1..Len(at) |-> rows[at[k]].top_label]

\* the labels of col that no other label of col outnumbers
MostFrequent(col) ==
    LET labels == {col[i] : i \in 1..Len(col)} \ {None}
        Times(v) == Cardinality({i \in 1..Len(col) : col[i] = v})
    IN  {v \in labels : \A w \in labels : Times(v) >= Times(w)}

\* the label of S that comes first in col
FirstOf(col, S) ==
    col[CHOOSE i \in 1..Len(col) : col[i] \in S /\ \A j \in 1..(i - 1) : col[j] \notin S]

\* one row per hour that has a segment, in ascending order, at most 24 rows
C23_OneRowPerHour ==
    pc = "analyzed" =>
        /\ Len(analysis.hourly) <= 24
        /\ {analysis.hourly[k].hour : k \in 1..Len(analysis.hourly)} =
               {df.rows[i].hour : i \in 1..Len(df.rows)}
        /\ \A k \in 1..Len(analysis.hourly), l \in 1..Len(analysis.hourly) :
               k < l => analysis.hourly[k].hour < analysis.hourly[l].hour
        /\ \A k \in 1..Len(analysis.hourly) :
               analysis.hourly[k].count =
                   Cardinality({i \in 1..Len(df.rows) : df.rows[i].hour = analysis.hourly[k].hour})

\* dominant_sound is one of the most frequent labels of the hour: on a tie, the
\* one that comes first in the order of string comparison
C23_DominantIsSmallestMode ==
    pc = "analyzed" =>
        \A k \in 1..Len(analysis.hourly) :
            LET tied == MostFrequent(HourLabels(df.rows, analysis.hourly[k].hour))
            IN  /\ analysis.hourly[k].dominant_sound \in tied
                /\ \A v \in tied : NameRank(analysis.hourly[k].dominant_sound) <= NameRank(v)

\* C23: the hourly series has one row per hour that has at least one segment
\* (at most 24 rows), and each row's dominant_sound is the most frequent primary
\* label among that hour's segments; when several labels tie for most frequent,
\* it is the tied label that occurs first in row order.
C23_DominantFirstOnTies ==
    /\ C23_OneRowPerHour
    /\ pc = "analyzed" =>
           \A k \in 1..Len(analysis.hourly) :
               LET col == HourLabels(df.rows, analysis.hourly[k].hour)
               IN  analysis.hourly[k].dominant_sound = FirstOf(col, MostFrequent(col))

\* an hour whose two most frequent labels tie, the first in row order not being
\* the first in string order
C23_TieSeen ==
    /\ pc = "analyzed"
    /\ \E k \in 1..Len(analysis.hourly) :
           LET col == HourLabels(df.rows, analysis.hourly[k].hour)
           IN  /\ Cardinality(MostFrequent(col)) >= 2
               /\ analysis.hourly[k].dominant_sound # FirstOf(col, MostFrequent(col))

(***************************************************************************)
(* Properties of the classification for the report (LabelSpec)             *)
(***************************************************************************)
Members(s) == {s[i] : i \in 1..Len(s)}

\* the share of the rows whose primary label is the label, in tenths of a percent
ShareOf(rows, label) ==
    RoundDiv(1000 * Cardinality({i \in 1..Len(rows) : rows[i].top_label = label}), Len(rows))

\* normaux and exceptionnels hold at most 10 labels each and share none, and
\* problematiques_frequents holds only problematic labels above 5 percent
C24_CapsAndFrequent ==
    pc = "analyzed" =>
        LET c == analysis.sounds.classification
        IN  /\ Len(c.normaux) <= 10
            /\ Len(c.exceptionnels) <= 10
            /\ Members(c.normaux) \cap Members(c.exceptionnels) = {}
            /\ Members(c.normaux) \cap Members(c.problematiques_frequents) = {}
            /\ \A l \in Members(c.problematiques_frequents) :
                   l \in PROBLEMATIC_SOUNDS /\ ShareOf(df.rows, l) > 50

\* no label is in two of the three buckets
C24_AtMostOneBucket ==
    pc = "analyzed" =>
        LET c == analysis.sounds.classification
        IN  /\ Members(c.normaux) \cap Members(c.exceptionnels) = {}
            /\ Members(c.normaux) \cap Members(c.problematiques_frequents) = {}
            /\ Members(c.exceptionnels) \cap Members(c.problematiques_frequents) = {}

\* C24: in the result of classify_sounds_for_report a label appears in at most
\* one of the three buckets normaux, exceptionnels, problematiques_frequents;
\* normaux and exceptionnels each hold at most 10 labels, and
\* problematiques_frequents holds only problematic-set labels whose occurrence
\* percentage is > 5.
C24_Buckets == C24_AtMostOneBucket /\ C24_CapsAndFrequent

\* more than 10 labels were exceptional, and a frequent problematic label was
\* cut from exceptionnels by the cap
C24_CapSeen ==
    /\ pc = "analyzed"
    /\ Len(analysis.sounds.classification.exceptionnels) = 10
    /\ Members(analysis.sounds.classification.problematiques_frequents)
           \ Members(analysis.sounds.classification.exceptionnels) # {}

\* every problematic label above 5 percent is in problematiques_frequents, and
\* in exceptionnels too unless the cap of 10 cut it
C24_FrequentAreExceptional ==
    pc = "analyzed" =>
        LET c == analysis.sounds.classification
        IN  \A l \in Members(c.problematiques_frequents) :
                l \in Members(c.exceptionnels) \/ Len(c.exceptionnels) = 10

(***************************************************************************)
(* Properties of the most frequent sounds (LabelSpec)                      *)
(***************************************************************************)
\* the rows whose primary label is the label
Occurrences(rows, label) == Cardinality({i \in 1..Len(rows) : rows[i].top_label = label})

LabelsOf(rows) == {rows[i].top_label : i \in 1..Len(rows)} \ {None}

\* list is a ranking of at most n of the labels of rows
IsTopSounds(list, rows, n) ==
    /\ Len(list) = Min(n, Cardinality(LabelsOf(rows)))
    /\ \A k \in 1..Len(list), l \in 1..Len(list) :
           /\ k # l => list[k].label # list[l].label
           /\ k < l => list[k].count >= list[l].count
    /\ \A k \in 1..Len(list) :
           /\ list[k].label \in LabelsOf(rows)
           /\ list[k].count = Occurrences(rows, list[k].label)
           /\ list[k].percentage = RoundDiv(1000 * list[k].count, Len(rows))
           /\ \A other \in LabelsOf(rows) \ Members([j \in 1..Len(list) |-> list[j].label]) :
                  Occurrences(rows, other) <= list[k].count

\* the rows of the day (hours 7 to 21) or of the night, in the order of the table
RowsOfPeriod(rows, period) ==
    SelectSeq(rows, LAMBDA r : (r.hour \in 7..21) <=> (period = "jour"))

\* C25: calculate_top_sounds(table, N) returns at most N entries with distinct
\* labels, ordered by occurrence count non-increasing, such that no omitted
\* label has a strictly larger count than a returned one; each entry's count
\* is the number of segments with that primary label and its percentage is
\* count / number of segments of the (sub)table; calculate_top_sounds_by_period
\* applies the same to the day or night subset and returns an empty list when
\* that subset is empty.
C25_TopSounds ==
    pc = "analyzed" =>
        /\ IsTopSounds(analysis.sounds.top_5, df.rows, 5)
        /\ \A period \in {"jour", "nuit"} :
               LET list == IF period = "jour" THEN analysis.sounds.top_5_jour
                           ELSE analysis.sounds.top_5_nuit
                   subset == RowsOfPeriod(df.rows, period)
               IN  IF subset = <<>> THEN list = <<>> ELSE IsTopSounds(list, subset, 5)

\* more than five labels, of different counts, one of the omitted labels coming
\* before a returned one in the table; nothing at night
C25_Witness ==
    /\ pc = "analyzed"
    /\ Cardinality(LabelsOf(df.rows)) > 5
    /\ analysis.sounds.top_5[1].count > analysis.sounds.top_5[5].count
    /\ analysis.sounds.top_5[1].label # df.rows[1].top_label
    /\ df.rows[1].top_label \notin Members([j \in 1..5 |-> analysis.sounds.top_5[j].label])
    /\ analysis.sounds.top_5_nuit = <<>>
    /\ Len(analysis.sounds.top_5_jour) = 5

(***************************************************************************)
(* Properties of the families per period (LabelSpec)                       *)
(***************************************************************************)
\* the rows of the family
RowsOfFamily(rows, f) == {i \in 1..Len(rows) : get_sound_family(rows[i].top_label) = f}

\* list has one entry per family of rows, with its count, by percentage
IsFamilyList(list, rows) ==
    /\ {list[k].family : k \in 1..Len(list)} =
           {get_sound_family(rows[i].top_label) : i \in 1..Len(rows)}
    /\ \A k \in 1..Len(list), l \in 1..Len(list) :
           /\ k # l => list[k].family # list[l].family
           /\ k < l => list[k].percentage >= list[l].percentage
    /\ \A k \in 1..Len(list) :
           /\ list[k].count = Cardinality(RowsOfFamily(rows, list[k].family))
           /\ list[k].count > 0
    /\ SumSeq([k \in 1..Len(list) |-> list[k].count]) = Len(rows)

\* C26: calculate_family_by_period returns, for the day or night subset, one
\* entry per family present in that subset, whose counts sum to the subset
\* size, ordered by percentage non-increasing; it returns an empty map when the
\* subset is empty.
C26_FamiliesByPeriod ==
    pc = "analyzed" =>
        \A period \in {"jour", "nuit"} :
            LET list == IF period = "jour" THEN analysis.sounds.families_jour
                        ELSE analysis.sounds.families_nuit
                subset == RowsOfPeriod(df.rows, period)
            IN  IF subset = <<>> THEN list = <<>> ELSE IsFamilyList(list, subset)

\* at night several families of different shares, the largest not the first in
\* the order of the names; nothing in the day
C26_Witness ==
    /\ pc = "analyzed"
    /\ analysis.sounds.families_jour = <<>>
    /\ Len(analysis.sounds.families_nuit) >= 3
    /\ \E k \in 2..Len(analysis.sounds.families_nuit) :
           /\ analysis.sounds.families_nuit[1].percentage >
                  analysis.sounds.families_nuit[k].percentage
           /\ NameRank(analysis.sounds.families_nuit[k].family) <
                  NameRank(analysis.sounds.families_nuit[1].family)

(***************************************************************************)
(* Properties of the global and the day/night statistics (Spec)            *)
(***************************************************************************)
\* the sum of the levels of the rows, in tenths of a dB
LevelSum(rows) == SumSeq([i \in 1..Len(rows) |-> rows[i].LAeq_segment_dB])

\* the grade of the mean level, and the statistics of a period without segments
C27_GradeAndEmptyPeriod ==
    pc = "analyzed" =>
        /\ analysis.global.note_globale = get_note_from_db(LevelSum(df.rows), Len(df.rows))
        /\ analysis.global.db_mean = RoundDiv(LevelSum(df.rows), Len(df.rows))
        /\ \A period \in {"jour", "nuit"} :
               LET stats == analysis.day_night[period]
               IN  /\ stats.count = Len(RowsOfPeriod(df.rows, period))
                   /\ stats.count = 0 =>
                          stats.mean = NaN /\ stats.min = NaN /\ stats.max = NaN
                   /\ stats.count > 0 =>
                          stats.mean = RoundDiv(LevelSum(RowsOfPeriod(df.rows, period)),
                                                stats.count)

\* C27 as stated: duration_hours = total_segments * 9 / 3600 regardless of
\* timestamps and note_globale = get_note_from_db(mean of LAeq_segment_dB); a
\* period with zero segments reports mean, min and max as null with count 0.
\* duration_hours is in hundredths of an hour.
C27_ExactDuration ==
    /\ C27_GradeAndEmptyPeriod
    /\ pc = "analyzed" =>
           analysis.global.duration_hours * 3600 = analysis.global.total_segments * 9 * 100

\* C27: duration_hours is total_segments * 9 / 3600 rounded to two decimals
\* (at most half a hundredth from the quotient), whatever the timestamps; note_globale = get_note_from_db(mean of
\* LAeq_segment_dB); a period with zero segments reports mean, min and max as
\* null with count 0.
C27_RoundedDuration ==
    /\ C27_GradeAndEmptyPeriod
    /\ pc = "analyzed" =>
           /\ analysis.global.total_segments = Len(df.rows)
           /\ 2 * 3600 * analysis.global.duration_hours - 2 * 900 * Len(df.rows) \in -3600..3600

\* three segments at hours 6, 8, 23 with 20, 50, 40 dB: day count 1, night
\* count 2, mean 36.7 and overall grade C
C27_Witness ==
    /\ pc = "analyzed"
    /\ {<<df.rows[i].hour, df.rows[i].LAeq_segment_dB>> : i \in 1..Len(df.rows)} =
           {<<6, 200>>, <<8, 500>>, <<23, 400>>}
    /\ Len(df.rows) = 3
    /\ analysis.day_night.jour.count = 1
    /\ analysis.day_night.nuit.count = 2
    /\ analysis.global.db_mean = 367
    /\ analysis.global.note_globale = "C"
    /\ analysis.global.duration_hours = 1
    /\ analysis.global.duration_hours * 3600 # analysis.global.total_segments * 9 * 100

\* a table whose segments are all in the night: the day reports nulls
C27_EmptyPeriodSeen ==
    /\ pc = "analyzed"
    /\ analysis.day_night.jour = [mean |-> NaN, min |-> NaN, max |-> NaN, count |-> 0]
    /\ analysis.day_night.nuit.count > 0

(***************************************************************************)
(* Properties of the grades next to a bound (LevelSpec)                    *)
(***************************************************************************)
\* the grades are those of the means before they are rounded
C28_GradeOfExactMean ==
    pc = "analyzed" =>
        /\ analysis.global.note_globale = get_note_from_db(LevelSum(df.rows), Len(df.rows))
        /\ \A k \in 1..Len(analysis.sounds.top_5) :
               LET mine == SelectSeq(df.rows,
                                     LAMBDA r : r.top_label = analysis.sounds.top_5[k].label)
               IN  analysis.sounds.top_5[k].note = get_note_from_db(LevelSum(mine), Len(mine))

\* C28: in every bundle note_globale equals get_note_from_db applied to the
\* bundle's own reported db_mean (the mean rounded to one decimal), and each
\* top-sound entry's note equals get_note_from_db of its reported avg_db: the
\* displayed grade is never inconsistent with the displayed mean at a band
\* boundary.
C28_GradeOfDisplayedMean ==
    pc = "analyzed" =>
        /\ analysis.global.note_globale = get_note_from_db(analysis.global.db_mean, 1)
        /\ \A k \in 1..Len(analysis.sounds.top_5) :
               analysis.sounds.top_5[k].note =
                   get_note_from_db(analysis.sounds.top_5[k].avg_db, 1)

\* levels 45.0, 45.0 and 45.1: the mean is displayed as 45.0, of band C, and
\* the grade is D
C28_BoundarySeen ==
    /\ pc = "analyzed"
    /\ Len(df.rows) = 3
    /\ LevelSum(df.rows) = 1351
    /\ analysis.global.db_mean = 450
    /\ analysis.global.note_globale = "D"
    /\ get_note_from_db(analysis.global.db_mean, 1) = "C"

(***************************************************************************)
(* Properties of the rows without a label (GapSpec)                        *)
(***************************************************************************)
\* the rows first..last are a whole run of one label, not null and not empty
IsLabelledRun(rows, first, last) ==
    /\ first <= last
    /\ rows[first].top_label # None /\ rows[first].top_label # ""
    /\ \A i \in first..last : rows[i].top_label = rows[first].top_label
    /\ first > 1 => rows[first - 1].top_label # rows[first].top_label
    /\ last < Len(rows) => rows[last + 1].top_label # rows[first].top_label

\* C29: a run of rows whose primary label is null or empty never produces an
\* event whatever its length, but it ends the run before it: two runs of the
\* same label separated by rows without a label are two events, each only if it
\* alone reaches min_consecutive, never one merged event.
C29_UnlabelledRowsSplitRuns ==
    pc = "events_done" =>
        /\ \A k \in 1..Len(events) :
               /\ events[k].label \notin {None, ""}
               /\ IsLabelledRun(df.rows, events[k].first, events[k].last)
               /\ events[k].duration_segments = events[k].last - events[k].first + 1
               /\ events[k].duration_segments >= arg_min_consecutive
        /\ \A first \in 1..Len(df.rows), last \in 1..Len(df.rows) :
               (IsLabelledRun(df.rows, first, last) /\ last - first + 1 >= arg_min_consecutive)
                   => \E k \in 1..Len(events) :
                          events[k].first = first /\ events[k].last = last
        /\ \A k \in 1..Len(events), l \in 1..Len(events) :
               k < l => events[k].last < events[l].first

\* two Vehicle runs of three rows with one row without a label between them,
\* the threshold 3: two events; and a table with a run of three null rows
C29_Witness ==
    /\ pc = "events_done"
    /\ arg_min_consecutive = 3
    /\ Len(df.rows) = 7
    /\ df.rows[4].top_label \in {None, ""}
    /\ \A i \in {1, 2, 3, 5, 6, 7} : df.rows[i].top_label = "Vehicle"
    /\ Len(events) = 2
    /\ events[1].label = "Vehicle" /\ events[2].label = "Vehicle"

\* three null rows, then the empty string three times, then a Vehicle row: no event
C29_NoEventSeen ==
    /\ pc = "events_done"
    /\ arg_min_consecutive = 3
    /\ Len(df.rows) = 7
    /\ \A i \in 1..3 : df.rows[i].top_label = None
    /\ \A i \in 4..6 : df.rows[i].top_label = ""
    /\ events = <<>>

(***************************************************************************)
(* pages/1_Gestion_Clients.py: the client records of data/clients/ and the *)
(* sensor files of data/.  A record is one JSON file; its 'metadata' holds *)
(* 'statut', 'fichier_json_boitier' and 'date_modification'.               *)
(***************************************************************************)
Statuts == {None, "en_attente", "analyse_en_cours", "termine"}

BoitierNames == {"mesure_a.json", "mesure_b.json"}

\* The files a user can upload as a filled form: unreadable or without the
\* two required keys, without 'metadata', or with a 'metadata' whose 'statut'
\* is whatever the file holds (the HTML form writes "en_attente").
Forms ==
    [valid : {FALSE}, metadata : {FALSE}, statut : {None}]
    \cup [valid : {TRUE}, metadata : {FALSE}, statut : {None}]
    \cup [valid : {TRUE}, metadata : {TRUE}, statut : Statuts]

\* a record put in data/clients/ by hand, with no 'metadata' key
HandPlaced == [NoClient EXCEPT !.exists = TRUE]

\* parse_uploaded_form: an absent 'metadata' becomes an empty one, and the
\* modification date is set
parse_uploaded_form(form, now) ==
    [exists |-> TRUE, metadata |-> TRUE,
     statut |-> IF form.metadata THEN form.statut ELSE None,
     fichier_json_boitier |-> IF form.metadata THEN "" ELSE None,
     date_modification |-> now]

\* the same update with the assignment of the import tab, which sets the
\* status whatever it was
update_client_json_boitier_Unconditional(client_data, json_boitier_filename, now) ==
    IF ~ client_data.exists \/ ~ client_data.metadata
    THEN [ok |-> FALSE, data |-> client_data]
    ELSE [ok |-> TRUE,
          data |-> [client_data EXCEPT !.fichier_json_boitier = json_boitier_filename,
                                       !.date_modification = now,
                                       !.statut = "analyse_en_cours"]]

\* update_client_json_boitier: the record is read, changed and written back;
\* any exception (here the KeyError of a record without 'metadata') is caught
\* before the file is opened for writing, and False is returned
update_client_json_boitier(client_data, json_boitier_filename, now) ==
    IF ~ client_data.exists \/ ~ client_data.metadata
    THEN [ok |-> FALSE, data |-> client_data]
    ELSE [ok |-> TRUE,
          data |-> [client_data EXCEPT !.fichier_json_boitier = json_boitier_filename,
                                       !.date_modification = now,
                                       !.statut = IF @ = "en_attente"
                                                  THEN "analyse_en_cours" ELSE @]]

\* save_client names the file after the client and the time, to the second:
\* a new file each time
FreeSlots == {s \in ClientSlots : ~ clients.files[s].exists}

\* what every handler of the page leaves alone
ClientFrame ==
    UNCHANGED <<loaderVars, tableVars, events, arg_min_consecutive, interpVars>>

\* Import tab, "ENREGISTRER CE CLIENT": the uploaded form is parsed and saved
SaveClient ==
    /\ pc \in {"clients", "saved", "form_error", "associated", "not_associated", "invalid_json"}
    /\ clients.clock < MaxClock
    /\ FreeSlots # {}
    /\ \E form \in Forms :
         LET now == clients.clock + 1
             slot == CHOOSE s \in FreeSlots : \A t \in FreeSlots : s <= t
         IN  IF ~ form.valid
             THEN /\ pc' = "form_error"
                  /\ clients' = [clients EXCEPT !.clock = now]
                  /\ args' = <<>>
                  /\ ret' = <<>>
             ELSE /\ pc' = "saved"
                  /\ clients' = [clients EXCEPT !.clock = now,
                                   !.files[slot] = parse_uploaded_form(form, now)]
                  /\ args' = <<slot>>
                  /\ ret' = <<slot>>
    /\ ClientFrame

\* what both ways of associating a sensor file do with the record
Associate(slot, name, boitiers) ==
    LET now == clients.clock + 1
        r == update_client_json_boitier(clients.files[slot], name, now)
    IN  /\ clients' = [clock |-> now,
                       files |-> [clients.files EXCEPT ![slot] = r.data],
                       boitiers |-> boitiers]
        /\ args' = <<slot, name>>
        /\ ret' = <<r.ok>>
        /\ pc' = IF r.ok THEN "associated" ELSE "not_associated"

\* Client list, upload of a sensor file under a client: the file must be JSON;
\* it is written to data/ and then associated
UploadBoitier ==
    /\ pc \in {"clients", "saved", "form_error", "associated", "not_associated", "invalid_json"}
    /\ clients.clock < MaxClock
    /\ \E slot \in ClientSlots, name \in BoitierNames, json \in BOOLEAN :
         /\ clients.files[slot].exists
         /\ IF ~ json
            THEN /\ pc' = "invalid_json"
                 /\ clients' = [clients EXCEPT !.clock = @ + 1]
                 /\ args' = <<>>
                 /\ ret' = <<>>
            ELSE Associate(slot, name, clients.boitiers \cup {name})
    /\ ClientFrame

\* Client list, "Associer": one of the files of data/ is chosen
AssociateExisting ==
    /\ pc \in {"clients", "saved", "form_error", "associated", "not_associated", "invalid_json"}
    /\ clients.clock < MaxClock
    /\ \E slot \in ClientSlots, selected \in clients.boitiers :
         /\ clients.files[slot].exists
         /\ Associate(slot, selected, clients.boitiers)
    /\ ClientFrame

ClientInit ==
    /\ pc = "clients"
    /\ clients \in [clock : {0},
                    files : [ClientSlots -> {NoClient, HandPlaced}],
                    boitiers : {{}, {"mesure_a.json"}}]
    /\ raw_data = <<>>
    /\ validation_errors = <<>>
    /\ validation_warnings = <<>>
    /\ load_result = "none"
    /\ df = NoTable
    /\ analysis_result = "none"
    /\ analysis = NoBundle
    /\ events = <<>>
    /\ arg_min_consecutive = 0
    /\ NoCall
    /\ InterpIdle

ClientNext == SaveClient \/ UploadBoitier \/ AssociateExisting

ClientSpec == ClientInit /\ [][ClientNext]_vars

\* the step is a call of update_client_json_boitier on the record in this
\* slot that returned True
UpdateSucceeded(s) ==
    /\ clients'.clock = clients.clock + 1
    /\ pc' = "associated"
    /\ Len(args') = 2
    /\ args'[1] = s
    /\ ret' = <<TRUE>>

\* C30: whatever the sequence of operations on the client records, a call of
\* update_client_json_boitier that succeeds sets the record's sensor-file
\* name to the one given, moves the status "en_attente" to "analyse_en_cours"
\* and leaves every other status as it was; no step brings the status of a
\* record back to "en_attente", and no step makes it "termine".
C30_StatusOnlyAdvances ==
    [][\A s \in ClientSlots :
          LET before == clients.files[s]
              after == clients'.files[s]
          IN  before.exists =>
                /\ after.exists
                /\ UpdateSucceeded(s) =>
                     /\ after.fichier_json_boitier = args'[2]
                     /\ after.statut = IF before.statut = "en_attente"
                                       THEN "analyse_en_cours" ELSE before.statut
                /\ ~ UpdateSucceeded(s) => after = before
                /\ after.statut = "en_attente" => before.statut = "en_attente"
                /\ after.statut = "termine" => before.statut = "termine"]_vars

\* a sensor file was just associated with a record that is now in analysis,
\* while another record, imported as "termine", had one associated and is
\* still "termine"
C30_Witness ==
    /\ pc = "associated"
    /\ ret = <<TRUE>>
    /\ Len(args) = 2
    /\ clients.files[args[1]].statut = "analyse_en_cours"
    /\ clients.files[args[1]].fichier_json_boitier = args[2]
    /\ \E t \in ClientSlots :
         /\ clients.files[t].statut = "termine"
         /\ clients.files[t].fichier_json_boitier \in BoitierNames

\* a call on a record without 'metadata' returned False and left it alone
C30_FailedCallSeen ==
    /\ pc = "not_associated"
    /\ ret = <<FALSE>>
    /\ clients.files[args[1]] = HandPlaced
====
